---- MODULE Spec2Model ----
(***************************************************************************)
(* Model of the remcli P2P daemon core: the in-memory Store with its       *)
(* optimistic-concurrency versions and sequence counters (p2pStore.ts),    *)
(* the Socket.IO handlers and REST routes that drive it                    *)
(* (p2pSocketHandlers.ts, p2pRestRoutes.ts), the event router              *)
(* (p2pEventRouter.ts), the handshake (p2pServer.ts) and the RPC listener  *)
(* registry (p2pSocketHandlers.ts).                                        *)
(*                                                                         *)
(* Node.js runs every synchronous handler to completion, so one handler    *)
(* is one action.  The only handler that suspends is 'rpc-call' (it awaits *)
(* the acknowledgement), so it is split at its await.                      *)
(*                                                                         *)
(* Left out of the state: wall-clock timestamps (createdAt, updatedAt,     *)
(* activeAt), dataEncryptionKey, and the text of log lines.                *)
(***************************************************************************)
EXTENDS Integers, Sequences, FiniteSets, TLC

\* ─── Bounds ──────────────────────────────────────────────────────────────
MaxUserSeq == 5
MaxSeqOcc == 4
MaxSeqMsgs == 8
MaxSessions == 2
MaxMessages == 2
Writers == 2
MaxSeqRouter == 4
MaxConns == 3
MaxConnsRpc == 3
MaxConnsCalls == 2
MaxCalls == 1
TicksPerTimeout == 2
MaxSeqRest == 4
MaxDaemons == 2
MaxChildren == 1
MaxConnsClients == 2
MaxSeqClients == 4
MaxConnsPairing == 2
MaxSeqPairing == 5
MaxSeqWrites == 4

\* ─── Input domains ───────────────────────────────────────────────────────
NULL == "NULL"
EMPTY == ""
Vals == {"a", "b"}
Contents == {"c"}
Tags == {"t1", "t2"}
SessionIds == 1..MaxSessions
OwnMachineId == "m0"
MachineIds == {OwnMachineId, "m1"}
ArtifactIds == {"x1"}
Methods == {"spawn-session", "stop-session"}
Responses == {"r"}

VARIABLES
    sessions,          \* P2PStore.sessions: id -> session record
    sessionMessages,   \* P2PStore.sessionMessages: id -> sequence of messages
    sessionSeqs,       \* P2PStore.sessionSeqs: id -> last per-session seq
    machines,          \* P2PStore.machines
    artifacts,         \* P2PStore.artifacts
    userSeq,           \* P2PStore.userSeq
    uuidCtr,           \* number of session ids drawn from randomUUID()
    handedOut,         \* history: values returned by allocateUserSeq, in order
    lastUpdate,        \* history: the UpdatePayload built by the last handler
    batch,             \* history: replies to a set of same-expectedVersion writers
    connections,       \* P2PEventRouter.connections: socket -> connection record
    nextSocket,        \* number of sockets accepted so far (a socket is never reused)
    lastEmit,          \* history: what the last handler emitted through the router
    rpcListeners,      \* rpcListeners: method -> owning socket
    calls,             \* the 'rpc-call' invocations, in order of arrival
    lastRpc,           \* history: the last rpc-register / rpc-unregister and its answer
    released,          \* history: methods whose binding a disconnect removed
    lastHttp,          \* history: the last HTTP request and the reply it got
    lockFile,          \* daemon.state.json.lock: NULL or the PID that created it
    stateFile,         \* daemon.state.json: NULL or the state last written
    daemons,           \* the daemon processes: PID -> control state of startDaemon()
    diskVersion,       \* the version in package.json on disk
    pidToTrackedSession, \* per daemon: PID -> TrackedSession
    pidToAwaiter,      \* per daemon: the PIDs whose spawn awaits the webhook
    children,          \* the session processes: PID -> who launched it, how far its spawn is
    signalled,         \* history: the session PIDs that were sent SIGTERM
    lastWebhook,       \* history: the last session webhook handled
    directories,       \* the directories that exist on the daemon's host
    lastSpawn          \* history: the last spawn request and what it returned

storeVars == <<sessions, sessionMessages, sessionSeqs, machines, artifacts, userSeq, uuidCtr>>
histVars == <<handedOut, lastUpdate, batch>>
connVars == <<connections, nextSocket>>
rpcVars == <<rpcListeners, calls, lastRpc, released>>
spawnVars == <<directories, lastSpawn>>
childVars == <<pidToTrackedSession, pidToAwaiter, children, signalled, lastWebhook, spawnVars>>
daemonVars == <<lockFile, stateFile, daemons, diskVersion, childVars>>
hostVars == <<lastHttp, daemonVars>>
serverVars == <<storeVars, histVars, connVars, lastEmit, rpcVars, lastHttp>>
vars == <<storeVars, histVars, connVars, lastEmit, rpcVars, hostVars>>

\* ─── Store: sequences (p2pStore.ts) ──────────────────────────────────────

\* a plausible bug: the counter is returned without being advanced
allocateUserSeqStuck(u) == u

\* ++this.userSeq: the new counter value, which is also the value returned
allocateUserSeq(u) == u + 1

\* a plausible bug: the current value is returned, not the next
allocateSessionSeqStuck(seqs, sessionId) ==
    IF sessionId \in DOMAIN seqs THEN seqs[sessionId] ELSE 0

\* (this.sessionSeqs.get(sessionId) || 0) + 1
allocateSessionSeq(seqs, sessionId) ==
    (IF sessionId \in DOMAIN seqs THEN seqs[sessionId] ELSE 0) + 1

\* Map.set on a function with a dynamic domain
MapSet(m, k, v) == [x \in DOMAIN m \cup {k} |-> IF x = k THEN v ELSE m[x]]

\* Map.delete
MapDelete(m, k) == [x \in DOMAIN m \ {k} |-> m[x]]

\* ─── Store: sessions ────────────────────────────────────────────────────

getSessionByTag(ss, tag) ==
    IF \E id \in DOMAIN ss : ss[id].tag = tag
    THEN CHOOSE id \in DOMAIN ss : ss[id].tag = tag
    ELSE 0

\* a plausible bug: no look-up by tag, a session is created every time
createSessionAnew(ss, u, newId, tag, metadata) ==
    [id |-> newId, created |-> TRUE, userSeq |-> allocateUserSeq(u),
     sessions |-> MapSet(ss, newId,
         [tag |-> tag, seq |-> allocateUserSeq(u), metadata |-> metadata,
          metadataVersion |-> 1, agentState |-> NULL, agentStateVersion |-> 1,
          active |-> TRUE])]

\* createSession: returns the session id, the new map and the new userSeq
createSession(ss, u, newId, tag, metadata) ==
    IF \E id \in DOMAIN ss : ss[id].tag = tag
    THEN LET id == CHOOSE i \in DOMAIN ss : ss[i].tag = tag
         IN [id |-> id, created |-> FALSE, userSeq |-> u,
             sessions |-> [ss EXCEPT ![id] = [@ EXCEPT !.metadata = metadata,
                                                        !.metadataVersion = @ + 1,
                                                        !.active = TRUE]]]
    ELSE [id |-> newId, created |-> TRUE, userSeq |-> allocateUserSeq(u),
          sessions |-> MapSet(ss, newId,
              [tag |-> tag, seq |-> allocateUserSeq(u), metadata |-> metadata,
               metadataVersion |-> 1, agentState |-> NULL, agentStateVersion |-> 1,
               active |-> TRUE])]

updateSessionMetadata(ss, sessionId, metadata, expectedVersion) ==
    IF sessionId \notin DOMAIN ss
    THEN [result |-> "error", version |-> 0, value |-> EMPTY, store |-> ss]
    ELSE IF ss[sessionId].metadataVersion # expectedVersion
    THEN [result |-> "version-mismatch", version |-> ss[sessionId].metadataVersion,
          value |-> ss[sessionId].metadata, store |-> ss]
    ELSE LET s2 == [ss[sessionId] EXCEPT !.metadata = metadata, !.metadataVersion = @ + 1]
         IN [result |-> "success", version |-> s2.metadataVersion, value |-> s2.metadata,
             store |-> [ss EXCEPT ![sessionId] = s2]]

updateSessionState(ss, sessionId, agentState, expectedVersion) ==
    IF sessionId \notin DOMAIN ss
    THEN [result |-> "error", version |-> 0, value |-> NULL, store |-> ss]
    ELSE IF ss[sessionId].agentStateVersion # expectedVersion
    THEN [result |-> "version-mismatch", version |-> ss[sessionId].agentStateVersion,
          value |-> ss[sessionId].agentState, store |-> ss]
    ELSE LET s2 == [ss[sessionId] EXCEPT !.agentState = agentState, !.agentStateVersion = @ + 1]
         IN [result |-> "success", version |-> s2.agentStateVersion, value |-> s2.agentState,
             store |-> [ss EXCEPT ![sessionId] = s2]]

setSessionActive(ss, sessionId, active) ==
    IF sessionId \notin DOMAIN ss THEN ss
    ELSE [ss EXCEPT ![sessionId] = [@ EXCEPT !.active = active]]

\* ─── Store: machines ────────────────────────────────────────────────────

getOrCreateMachine(ms, u, id, metadata, daemonState) ==
    IF id \in DOMAIN ms
    THEN [userSeq |-> u,
          machines |-> [ms EXCEPT ![id] =
              [@ EXCEPT !.metadata = metadata,
                        !.metadataVersion = @ + 1,
                        !.daemonState = IF daemonState # NULL THEN daemonState ELSE @,
                        !.daemonStateVersion = IF daemonState # NULL THEN @ + 1 ELSE @,
                        !.active = TRUE]]]
    ELSE [userSeq |-> allocateUserSeq(u),
          machines |-> MapSet(ms, id,
              [seq |-> allocateUserSeq(u), metadata |-> metadata, metadataVersion |-> 1,
               daemonState |-> daemonState, daemonStateVersion |-> 1, active |-> TRUE])]

\* a plausible bug: the version is not compared
updateMachineMetadataBlind(ms, machineId, metadata, expectedVersion) ==
    IF machineId \notin DOMAIN ms
    THEN [result |-> "error", version |-> 0, value |-> EMPTY, store |-> ms]
    ELSE LET m2 == [ms[machineId] EXCEPT !.metadata = metadata, !.metadataVersion = @ + 1]
         IN [result |-> "success", version |-> m2.metadataVersion, value |-> m2.metadata,
             store |-> [ms EXCEPT ![machineId] = m2]]

updateMachineMetadata(ms, machineId, metadata, expectedVersion) ==
    IF machineId \notin DOMAIN ms
    THEN [result |-> "error", version |-> 0, value |-> EMPTY, store |-> ms]
    ELSE IF ms[machineId].metadataVersion # expectedVersion
    THEN [result |-> "version-mismatch", version |-> ms[machineId].metadataVersion,
          value |-> ms[machineId].metadata, store |-> ms]
    ELSE LET m2 == [ms[machineId] EXCEPT !.metadata = metadata, !.metadataVersion = @ + 1]
         IN [result |-> "success", version |-> m2.metadataVersion, value |-> m2.metadata,
             store |-> [ms EXCEPT ![machineId] = m2]]

\* machine.daemonState || '' : null and '' both read as ''
OrEmpty(v) == IF v = NULL \/ v = EMPTY THEN EMPTY ELSE v

updateMachineDaemonState(ms, machineId, daemonState, expectedVersion) ==
    IF machineId \notin DOMAIN ms
    THEN [result |-> "error", version |-> 0, value |-> EMPTY, store |-> ms]
    ELSE IF ms[machineId].daemonStateVersion # expectedVersion
    THEN [result |-> "version-mismatch", version |-> ms[machineId].daemonStateVersion,
          value |-> OrEmpty(ms[machineId].daemonState), store |-> ms]
    ELSE LET m2 == [ms[machineId] EXCEPT !.daemonState = daemonState,
                                         !.daemonStateVersion = @ + 1,
                                         !.active = TRUE]
         IN [result |-> "success", version |-> m2.daemonStateVersion, value |-> m2.daemonState,
             store |-> [ms EXCEPT ![machineId] = m2]]

\* ─── Store: artifacts ───────────────────────────────────────────────────

createArtifact(as, u, id, header, body) ==
    [userSeq |-> allocateUserSeq(u),
     artifacts |-> MapSet(as, id,
         [seq |-> allocateUserSeq(u), header |-> header, headerVersion |-> 1,
          body |-> body, bodyVersion |-> 1])]

updateArtifactHeader(as, artifactId, header, expectedVersion) ==
    IF artifactId \notin DOMAIN as
    THEN [result |-> "error", version |-> 0, value |-> EMPTY, store |-> as]
    ELSE IF as[artifactId].headerVersion # expectedVersion
    THEN [result |-> "version-mismatch", version |-> as[artifactId].headerVersion,
          value |-> as[artifactId].header, store |-> as]
    ELSE LET a2 == [as[artifactId] EXCEPT !.header = header, !.headerVersion = @ + 1]
         IN [result |-> "success", version |-> a2.headerVersion, value |-> a2.header,
             store |-> [as EXCEPT ![artifactId] = a2]]

updateArtifactBody(as, artifactId, body, expectedVersion) ==
    IF artifactId \notin DOMAIN as
    THEN [result |-> "error", version |-> 0, value |-> EMPTY, store |-> as]
    ELSE IF as[artifactId].bodyVersion # expectedVersion
    THEN [result |-> "version-mismatch", version |-> as[artifactId].bodyVersion,
          value |-> as[artifactId].body, store |-> as]
    ELSE LET a2 == [as[artifactId] EXCEPT !.body = body, !.bodyVersion = @ + 1]
         IN [result |-> "success", version |-> a2.bodyVersion, value |-> a2.body,
             store |-> [as EXCEPT ![artifactId] = a2]]

\* ─── Store: messages ────────────────────────────────────────────────────

\* a plausible bug: no look-up of the session, the message is stored
addMessageAnySession(ss, msgs, seqs, sessionId, content) ==
    LET seq == allocateSessionSeq(seqs, sessionId)
        old == IF sessionId \in DOMAIN msgs THEN msgs[sessionId] ELSE <<>>
    IN [ok |-> TRUE, seq |-> seq,
        sessions |-> IF sessionId \in DOMAIN ss
                     THEN [ss EXCEPT ![sessionId] = [@ EXCEPT !.active = TRUE]] ELSE ss,
        sessionMessages |-> MapSet(msgs, sessionId,
                                   Append(old, [seq |-> seq, content |-> content])),
        sessionSeqs |-> MapSet(seqs, sessionId, seq)]

\* addMessage: null (ok = FALSE) when the session is absent
addMessage(ss, msgs, seqs, sessionId, content) ==
    IF sessionId \notin DOMAIN ss
    THEN [ok |-> FALSE, seq |-> 0, sessions |-> ss, sessionMessages |-> msgs, sessionSeqs |-> seqs]
    ELSE LET seq == allocateSessionSeq(seqs, sessionId)
             old == IF sessionId \in DOMAIN msgs THEN msgs[sessionId] ELSE <<>>
         IN [ok |-> TRUE, seq |-> seq,
             sessions |-> [ss EXCEPT ![sessionId] = [@ EXCEPT !.active = TRUE]],
             sessionMessages |-> MapSet(msgs, sessionId,
                                        Append(old, [seq |-> seq, content |-> content])),
             sessionSeqs |-> MapSet(seqs, sessionId, seq)]

\* ─── Store: snapshot (P2PStore.saveToDisk / loadFromDisk) ───────────────

\* the fields of a P2PStore
Store(u, ss, seqs, msgs, ms, as) ==
    [userSeq |-> u, sessions |-> ss, sessionSeqs |-> seqs, sessionMessages |-> msgs,
     machines |-> ms, artifacts |-> as]

\* new P2PStore()
FreshStore == Store(0, <<>>, <<>>, <<>>, <<>>, <<>>)

\* Array.from(map.values()): the entities, each with its id in it
ValuesOf(m) == {[id |-> k, entity |-> m[k]] : k \in DOMAIN m}

\* for (const e of array) map.set(e.id, e)
SetEach(array) == [k \in {e.id : e \in array} |-> (CHOOSE e \in array : e.id = k).entity]

\* Object.fromEntries(map)
ObjectFromEntries(m) == {<<k, m[k]>> : k \in DOMAIN m}

\* for (const [k, v] of Object.entries(object)) map.set(k, v)
SetEntries(object) == [k \in {e[1] : e \in object} |-> (CHOOSE e \in object : e[1] = k)[2]]

\* the file p2p-store.json is not there: existsSync(this.storePath) is false
NoFile == <<>>

\* JSON.stringify of the snapshot, the text of the file
JSONstringify(snapshot) == <<"json", snapshot>>

\* JSON.parse of the text of the file
JSONparse(file) == file[2]

\* saveToDisk: what writeFileSync leaves in the file
saveToDisk(store) ==
    JSONstringify([version |-> 1,
                   userSeq |-> store.userSeq,
                   sessions |-> ValuesOf(store.sessions),
                   sessionSeqs |-> ObjectFromEntries(store.sessionSeqs),
                   messages |-> ObjectFromEntries(store.sessionMessages),
                   machines |-> ValuesOf(store.machines),
                   artifacts |-> ValuesOf(store.artifacts)])

\* a plausible bug: the per-session counters are not restored
loadFromDiskNoCounters(file, store) ==
    IF file = NoFile THEN store
    ELSE LET snapshot == JSONparse(file)
         IN IF snapshot.version # 1 THEN store
            ELSE Store(snapshot.userSeq, SetEach(snapshot.sessions), <<>>,
                       SetEntries(snapshot.messages), SetEach(snapshot.machines),
                       SetEach(snapshot.artifacts))

\* the text of the file is JSON
Parses(file) == file[1] = "json"

\* the snapshot has the field: reading it does not give undefined
Has(snapshot, field) == field \in DOMAIN snapshot

\* loadFromDisk into store: no file, a text that JSON.parse throws on and an
\* unknown version leave it as it is; otherwise the fields are applied in
\* order, each map cleared and then filled, up to the first one that throws
\* because the snapshot does not have it, and the catch keeps what was
\* applied
loadFromDisk(file, store) ==
    IF file = NoFile THEN store
    ELSE IF ~Parses(file) THEN store
    ELSE LET snapshot == JSONparse(file)
             s0 == [store EXCEPT !.userSeq = snapshot.userSeq]
             s1 == [s0 EXCEPT !.sessions =
                        IF Has(snapshot, "sessions") THEN SetEach(snapshot.sessions) ELSE <<>>]
             s2 == [s1 EXCEPT !.sessionSeqs =
                        IF Has(snapshot, "sessionSeqs") THEN SetEntries(snapshot.sessionSeqs) ELSE <<>>]
             s3 == [s2 EXCEPT !.sessionMessages =
                        IF Has(snapshot, "messages") THEN SetEntries(snapshot.messages) ELSE <<>>]
             s4 == [s3 EXCEPT !.machines =
                        IF Has(snapshot, "machines") THEN SetEach(snapshot.machines) ELSE <<>>]
             s5 == [s4 EXCEPT !.artifacts =
                        IF Has(snapshot, "artifacts") THEN SetEach(snapshot.artifacts) ELSE <<>>]
         IN IF ~Has(snapshot, "version") \/ snapshot.version # 1 THEN store
            ELSE IF ~Has(snapshot, "sessions") THEN s1
            ELSE IF ~Has(snapshot, "sessionSeqs") THEN s2
            ELSE IF ~Has(snapshot, "messages") THEN s3
            ELSE IF ~Has(snapshot, "machines") THEN s4
            ELSE s5

\* files a load fails on: a text that is no JSON, the snapshot of a store
\* under another schema version, and version-1 snapshots of it that lack
\* their last fields
Garbled == <<"{\"version\":1,\"userS">>

OtherVersion(store) == JSONstringify([JSONparse(saveToDisk(store)) EXCEPT !.version = 2])

Lacking(store, fields) ==
    JSONstringify([f \in DOMAIN JSONparse(saveToDisk(store)) \ fields |-> JSONparse(saveToDisk(store))[f]])

Incomplete(store) ==
    {Lacking(store, {"artifacts"}),
     Lacking(store, {"artifacts", "machines"}),
     Lacking(store, {"artifacts", "machines", "messages"}),
     Lacking(store, {"artifacts", "machines", "messages", "sessionSeqs"}),
     Lacking(store, {"artifacts", "machines", "messages", "sessionSeqs", "sessions"})}


\* ─── Update payloads and filters ────────────────────────────────────────

\* sessionId 0 and machineId NULL stand for a field that is not there
AllInterestedInSession(sid) == [type |-> "all-interested-in-session", sessionId |-> sid, machineId |-> NULL]
UserScopedOnly == [type |-> "user-scoped-only", sessionId |-> 0, machineId |-> NULL]
MachineScopedOnly(mid) == [type |-> "machine-scoped-only", sessionId |-> 0, machineId |-> mid]
AllUserAuthenticated == [type |-> "all-user-authenticated-connections", sessionId |-> 0, machineId |-> NULL]

NoUpdate == [t |-> "none", seq |-> 0, filter |-> UserScopedOnly]

\* a plausible bug: the update carries the counter as it is, none is taken
buildUpdateStale(u, t, filter) == [t |-> t, seq |-> u, filter |-> filter]

\* buildUpdate: the payload's seq comes from allocateUserSeq, once per payload
buildUpdate(u, t, filter) == [t |-> t, seq |-> allocateUserSeq(u), filter |-> filter]

\* ─── Event router (p2pEventRouter.ts) ───────────────────────────────────

\* a plausible bug: the scope is compared, the id is not
matchesFilterAnyId(conn, filter) ==
    CASE filter.type = "all-interested-in-session" ->
            conn.connectionType = "user-scoped" \/ conn.connectionType = "session-scoped"
      [] filter.type = "user-scoped-only" ->
            conn.connectionType = "user-scoped"
      [] filter.type = "machine-scoped-only" ->
            conn.connectionType = "user-scoped" \/ conn.connectionType = "machine-scoped"
      [] filter.type = "all-user-authenticated-connections" -> TRUE

matchesFilter(conn, filter) ==
    CASE filter.type = "all-interested-in-session" ->
            \/ conn.connectionType = "user-scoped"
            \/ conn.connectionType = "session-scoped" /\ conn.sessionId = filter.sessionId
      [] filter.type = "user-scoped-only" ->
            conn.connectionType = "user-scoped"
      [] filter.type = "machine-scoped-only" ->
            \/ conn.connectionType = "user-scoped"
            \/ conn.connectionType = "machine-scoped" /\ conn.machineId = filter.machineId
      [] filter.type = "all-user-authenticated-connections" -> TRUE

\* a plausible bug: the sender is not skipped
emitUpdateEcho(conns, filter, skipSender) ==
    {c \in DOMAIN conns : matchesFilter(conns[c], filter)}

\* the sockets on which 'update' is emitted; skipSender 0 is "not given"
emitUpdate(conns, filter, skipSender) ==
    {c \in DOMAIN conns : /\ ~(skipSender # 0 /\ c = skipSender)
                          /\ matchesFilter(conns[c], filter)}

\* the sockets on which 'ephemeral' is emitted
emitEphemeral(conns, filter, skipSender) ==
    {c \in DOMAIN conns : /\ ~(skipSender # 0 /\ c = skipSender)
                          /\ matchesFilter(conns[c], filter)}

NoEmit == [event |-> "none", filter |-> UserScopedOnly, skipSender |-> 0, to |-> {}]

\* router.emitUpdate(update, filter, skipSender) as called by a handler
EmitUpdate(filter, skipSender) ==
    lastEmit' = [event |-> "update", filter |-> filter, skipSender |-> skipSender,
                 to |-> emitUpdate(connections, filter, skipSender)]

\* router.emitEphemeral(payload, filter) as called by a handler
EmitEphemeral(filter) ==
    lastEmit' = [event |-> "ephemeral", filter |-> filter, skipSender |-> 0,
                 to |-> emitEphemeral(connections, filter, 0)]

\* ─── History bookkeeping ────────────────────────────────────────────────

NoBatch == [field |-> NULL, sessionId |-> 0, id |-> NULL, expectedVersion |-> 0, replies |-> <<>>]

\* what one versioned store update was asked, saw and answered
Observe(field, sid, id, expectedVersion, submitted, present, preVersion, preValue, postVersion, postValue, r, same) ==
    [field |-> field, sessionId |-> sid, id |-> id, expectedVersion |-> expectedVersion,
     submitted |-> submitted, present |-> present,
     preVersion |-> preVersion, preValue |-> preValue,
     postVersion |-> postVersion, postValue |-> postValue,
     result |-> r.result, version |-> r.version, value |-> r.value, storeSame |-> same]

\* a reply joins the batch when it answers one of the batch's writers
Record(b, o) ==
    IF /\ b.field = o.field /\ b.sessionId = o.sessionId /\ b.id = o.id
       /\ b.expectedVersion = o.expectedVersion /\ Len(b.replies) < Writers
    THEN [b EXCEPT !.replies = Append(@, [result |-> o.result, version |-> o.version,
                                           value |-> o.value, current |-> o.postVersion])]
    ELSE b

ExpectedVersions == {1, 2}

\* ─── Socket handlers on the Store (p2pSocketHandlers.ts) ────────────────
\* socket is the connected socket the event arrived on

OnMessage(socket, sid, content) ==
    LET m == addMessage(sessions, sessionMessages, sessionSeqs, sid, content)
        update == buildUpdate(userSeq, "new-message", AllInterestedInSession(sid))
    IN /\ socket \in DOMAIN connections
       /\ sessions' = m.sessions
       /\ sessionMessages' = m.sessionMessages
       /\ sessionSeqs' = m.sessionSeqs
       /\ IF m.ok
          THEN /\ userSeq' = update.seq
               /\ handedOut' = Append(handedOut, update.seq)
               /\ lastUpdate' = update
               /\ EmitUpdate(update.filter, socket)
          ELSE /\ UNCHANGED <<userSeq, handedOut>>
               /\ lastUpdate' = NoUpdate
               /\ lastEmit' = NoEmit
       /\ UNCHANGED <<machines, artifacts, uuidCtr, batch, connVars, rpcVars, hostVars>>

\* the body of an update-session / update-machine: the field written and
\* { version: result.version, value: result.<field> }
WithBody(update, o) ==
    [t |-> update.t, seq |-> update.seq, filter |-> update.filter,
     field |-> o.field, version |-> o.version, value |-> o.value]

\* the part shared by the four versioned session/machine handlers:
\* callback(result), then buildUpdate + emitUpdate only on success
Reply(o, t, filter, socket) ==
    LET update == buildUpdate(userSeq, t, filter)
    IN /\ IF o.result = "success"
          THEN /\ userSeq' = update.seq
               /\ handedOut' = Append(handedOut, update.seq)
               /\ lastUpdate' = WithBody(update, o)
               /\ EmitUpdate(update.filter, socket)
          ELSE /\ UNCHANGED <<userSeq, handedOut>>
               /\ lastUpdate' = NoUpdate
               /\ lastEmit' = NoEmit
       /\ batch' = Record(batch, o)

OnUpdateMetadata(socket, sid, metadata, expectedVersion) ==
    LET r == updateSessionMetadata(sessions, sid, metadata, expectedVersion)
        present == sid \in DOMAIN sessions
        o == Observe("session.metadata", sid, NULL, expectedVersion, metadata, present,
                     IF present THEN sessions[sid].metadataVersion ELSE 0,
                     IF present THEN sessions[sid].metadata ELSE NULL,
                     IF present THEN r.store[sid].metadataVersion ELSE 0,
                     IF present THEN r.store[sid].metadata ELSE NULL,
                     r, r.store = sessions)
    IN /\ socket \in DOMAIN connections
       /\ sessions' = r.store
       /\ Reply(o, "update-session", AllInterestedInSession(sid), socket)
       /\ UNCHANGED <<sessionMessages, sessionSeqs, machines, artifacts, uuidCtr,
                      connVars, rpcVars, hostVars>>

OnUpdateState(socket, sid, agentState, expectedVersion) ==
    LET r == updateSessionState(sessions, sid, agentState, expectedVersion)
        present == sid \in DOMAIN sessions
        o == Observe("session.agentState", sid, NULL, expectedVersion, agentState, present,
                     IF present THEN sessions[sid].agentStateVersion ELSE 0,
                     IF present THEN sessions[sid].agentState ELSE NULL,
                     IF present THEN r.store[sid].agentStateVersion ELSE 0,
                     IF present THEN r.store[sid].agentState ELSE NULL,
                     r, r.store = sessions)
    IN /\ socket \in DOMAIN connections
       /\ sessions' = r.store
       /\ Reply(o, "update-session", AllInterestedInSession(sid), socket)
       /\ UNCHANGED <<sessionMessages, sessionSeqs, machines, artifacts, uuidCtr,
                      connVars, rpcVars, hostVars>>

\* 'session-alive' (active = TRUE) and 'session-end' (active = FALSE)
OnSessionAliveOrEnd(socket, sid, active) ==
    /\ socket \in DOMAIN connections
    /\ sessions' = setSessionActive(sessions, sid, active)
    /\ lastUpdate' = NoUpdate
    /\ EmitEphemeral(UserScopedOnly)
    /\ UNCHANGED <<sessionMessages, sessionSeqs, machines, artifacts, userSeq, uuidCtr,
                   handedOut, batch, connVars, rpcVars, hostVars>>

\* 'machine-alive': nothing is stored
OnMachineAlive(socket, machineId) ==
    /\ socket \in DOMAIN connections
    /\ lastUpdate' = NoUpdate
    /\ EmitEphemeral(UserScopedOnly)
    /\ UNCHANGED <<storeVars, handedOut, batch, connVars, rpcVars, hostVars>>

\* 'usage-report': an ephemeral only when a sessionId is given (0: not given)
OnUsageReport(socket, sessionId) ==
    /\ socket \in DOMAIN connections
    /\ lastUpdate' = NoUpdate
    /\ IF sessionId # 0 THEN EmitEphemeral(UserScopedOnly) ELSE lastEmit' = NoEmit
    /\ UNCHANGED <<storeVars, handedOut, batch, connVars, rpcVars, hostVars>>

OnMachineUpdateMetadata(socket, machineId, metadata, expectedVersion) ==
    LET r == updateMachineMetadata(machines, machineId, metadata, expectedVersion)
        present == machineId \in DOMAIN machines
        o == Observe("machine.metadata", 0, machineId, expectedVersion, metadata, present,
                     IF present THEN machines[machineId].metadataVersion ELSE 0,
                     IF present THEN machines[machineId].metadata ELSE NULL,
                     IF present THEN r.store[machineId].metadataVersion ELSE 0,
                     IF present THEN r.store[machineId].metadata ELSE NULL,
                     r, r.store = machines)
    IN /\ socket \in DOMAIN connections
       /\ machines' = r.store
       /\ Reply(o, "update-machine", MachineScopedOnly(machineId), socket)
       /\ UNCHANGED <<sessions, sessionMessages, sessionSeqs, artifacts, uuidCtr,
                      connVars, rpcVars, hostVars>>

OnMachineUpdateState(socket, machineId, daemonState, expectedVersion) ==
    LET r == updateMachineDaemonState(machines, machineId, daemonState, expectedVersion)
        present == machineId \in DOMAIN machines
        o == Observe("machine.daemonState", 0, machineId, expectedVersion, daemonState, present,
                     IF present THEN machines[machineId].daemonStateVersion ELSE 0,
                     IF present THEN machines[machineId].daemonState ELSE NULL,
                     IF present THEN r.store[machineId].daemonStateVersion ELSE 0,
                     IF present THEN r.store[machineId].daemonState ELSE NULL,
                     r, r.store = machines)
    IN /\ socket \in DOMAIN connections
       /\ machines' = r.store
       /\ Reply(o, "update-machine", MachineScopedOnly(machineId), socket)
       /\ UNCHANGED <<sessions, sessionMessages, sessionSeqs, artifacts, uuidCtr,
                      connVars, rpcVars, hostVars>>

\* ─── Artifact handlers ──────────────────────────────────────────────────

OnArtifactCreate(socket, id, header, body) ==
    LET c == createArtifact(artifacts, userSeq, id, header, body)
        update == buildUpdate(c.userSeq, "new-artifact", UserScopedOnly)
    IN /\ socket \in DOMAIN connections
       /\ artifacts' = c.artifacts
       /\ userSeq' = update.seq
       /\ handedOut' = handedOut \o <<c.userSeq, update.seq>>
       /\ lastUpdate' = update
       /\ EmitUpdate(update.filter, socket)
       /\ UNCHANGED <<sessions, sessionMessages, sessionSeqs, machines, uuidCtr, batch,
                      connVars, rpcVars, hostVars>>

NoPart == [data |-> NULL, expectedVersion |-> 0]
Parts == {NoPart} \cup [data : {"b"}, expectedVersion : ExpectedVersions]

ObserveHeader(as, artifactId, part, r) ==
    Observe("artifact.header", 0, artifactId, part.expectedVersion, part.data, TRUE,
            as[artifactId].headerVersion, as[artifactId].header,
            r.store[artifactId].headerVersion, r.store[artifactId].header, r, r.store = as)

ObserveBody(as, artifactId, part, r) ==
    Observe("artifact.body", 0, artifactId, part.expectedVersion, part.data, TRUE,
            as[artifactId].bodyVersion, as[artifactId].body,
            r.store[artifactId].bodyVersion, r.store[artifactId].body, r, r.store = as)

\* 'artifact-update': header first, then body; the first mismatch answers and returns
OnArtifactUpdate(socket, artifactId, header, body) ==
    /\ socket \in DOMAIN connections
    /\ UNCHANGED <<connVars, rpcVars, hostVars>>
    /\ IF artifactId \notin DOMAIN artifacts
       THEN /\ lastUpdate' = NoUpdate
            /\ lastEmit' = NoEmit
            /\ UNCHANGED <<storeVars, handedOut, batch>>
       ELSE LET rh == updateArtifactHeader(artifacts, artifactId, header.data, header.expectedVersion)
                hasH == header # NoPart
                oh == ObserveHeader(artifacts, artifactId, header, rh)
                afterH == IF hasH THEN rh.store ELSE artifacts
                stopH == hasH /\ rh.result = "version-mismatch"
                rb == updateArtifactBody(afterH, artifactId, body.data, body.expectedVersion)
                hasB == body # NoPart /\ ~stopH
                ob == ObserveBody(afterH, artifactId, body, rb)
                afterB == IF hasB THEN rb.store ELSE afterH
                stopB == hasB /\ rb.result = "version-mismatch"
                update == buildUpdate(userSeq, "update-artifact", UserScopedOnly)
            IN /\ artifacts' = afterB
               /\ batch' = IF hasB THEN Record(IF hasH THEN Record(batch, oh) ELSE batch, ob)
                           ELSE IF hasH THEN Record(batch, oh) ELSE batch
               /\ IF stopH \/ stopB
                  THEN /\ lastUpdate' = NoUpdate
                       /\ lastEmit' = NoEmit
                       /\ UNCHANGED <<userSeq, handedOut>>
                  ELSE /\ userSeq' = update.seq
                       /\ handedOut' = Append(handedOut, update.seq)
                       /\ lastUpdate' = update
                       /\ EmitUpdate(update.filter, socket)
               /\ UNCHANGED <<sessions, sessionMessages, sessionSeqs, machines, uuidCtr>>

OnArtifactDelete(socket, artifactId) ==
    LET deleted == artifactId \in DOMAIN artifacts
        update == buildUpdate(userSeq, "delete-artifact", UserScopedOnly)
    IN /\ socket \in DOMAIN connections
       /\ artifacts' = MapDelete(artifacts, artifactId)
       /\ IF deleted
          THEN /\ userSeq' = update.seq
               /\ handedOut' = Append(handedOut, update.seq)
               /\ lastUpdate' = update
               /\ EmitUpdate(update.filter, socket)
          ELSE /\ UNCHANGED <<userSeq, handedOut>>
               /\ lastUpdate' = NoUpdate
               /\ lastEmit' = NoEmit
       /\ UNCHANGED <<sessions, sessionMessages, sessionSeqs, machines, uuidCtr, batch,
                      connVars, rpcVars, hostVars>>

\* ─── REST routes on the Store (p2pRestRoutes.ts) ────────────────────────
\* their updates are emitted without a skipSender

\* a plausible bug: the route leaves the look-up by tag to createSession,
\* which refreshes the metadata of the session it finds
PostSessionsRefreshing(tag, metadata, agentState) ==
    /\ UNCHANGED <<connVars, rpcVars, daemonVars>>
    /\ LET c == createSession(sessions, userSeq, uuidCtr + 1, tag, metadata)
           update == buildUpdate(c.userSeq, "new-session", UserScopedOnly)
       IN /\ uuidCtr' = IF c.created THEN uuidCtr + 1 ELSE uuidCtr
          /\ sessions' = c.sessions
          /\ sessionMessages' = IF c.created THEN MapSet(sessionMessages, c.id, <<>>) ELSE sessionMessages
          /\ userSeq' = update.seq
          /\ handedOut' = handedOut \o (IF c.created THEN <<c.userSeq>> ELSE <<>>) \o <<update.seq>>
          /\ lastUpdate' = update
          /\ EmitUpdate(update.filter, 0)
          /\ UNCHANGED <<sessionSeqs, machines, artifacts, batch>>

\* POST /v1/sessions: an existing tag returns the session as it is
PostSessions(tag, metadata, agentState) ==
    /\ UNCHANGED <<connVars, rpcVars, daemonVars>>
    /\ IF getSessionByTag(sessions, tag) # 0
       THEN /\ lastUpdate' = NoUpdate
            /\ lastEmit' = NoEmit
            /\ UNCHANGED <<storeVars, handedOut, batch>>
       ELSE LET c == createSession(sessions, userSeq, uuidCtr + 1, tag, metadata)
                given == agentState # NULL /\ agentState # EMPTY
                r == updateSessionState(c.sessions, c.id, agentState,
                                        c.sessions[c.id].agentStateVersion)
                update == buildUpdate(c.userSeq, "new-session", UserScopedOnly)
            IN /\ uuidCtr' = uuidCtr + 1
               /\ sessions' = IF given THEN r.store ELSE c.sessions
               /\ sessionMessages' = MapSet(sessionMessages, c.id, <<>>)
               /\ userSeq' = update.seq
               /\ handedOut' = handedOut \o <<c.userSeq, update.seq>>
               /\ lastUpdate' = update
               /\ EmitUpdate(update.filter, 0)
               /\ UNCHANGED <<sessionSeqs, machines, artifacts, batch>>

\* what POST /v1/sessions returns: sessionToResponse of the session that
\* bears the tag once the handler is through
PostSessionsReturns(tag) ==
    LET id == getSessionByTag(sessions', tag)
    IN [id |-> id, metadata |-> sessions'[id].metadata,
        metadataVersion |-> sessions'[id].metadataVersion]

\* DELETE /v1/sessions/:sessionId
DeleteSessionRoute(sid) ==
    LET deleted == sid \in DOMAIN sessions
        update == buildUpdate(userSeq, "delete-session", UserScopedOnly)
    IN /\ sessions' = MapDelete(sessions, sid)
       /\ sessionMessages' = MapDelete(sessionMessages, sid)
       /\ sessionSeqs' = MapDelete(sessionSeqs, sid)
       /\ IF deleted
          THEN /\ userSeq' = update.seq
               /\ handedOut' = Append(handedOut, update.seq)
               /\ lastUpdate' = update
               /\ EmitUpdate(update.filter, 0)
          ELSE /\ UNCHANGED <<userSeq, handedOut>>
               /\ lastUpdate' = NoUpdate
               /\ lastEmit' = NoEmit
       /\ UNCHANGED <<machines, artifacts, uuidCtr, batch, connVars, rpcVars, daemonVars>>

\* POST /v1/machines: upsert, then a 'new-machine' update either way
PostMachines(id, metadata, daemonState) ==
    LET g == getOrCreateMachine(machines, userSeq, id, metadata,
                                IF daemonState = EMPTY THEN NULL ELSE daemonState)
        update == buildUpdate(g.userSeq, "new-machine", UserScopedOnly)
    IN /\ machines' = g.machines
       /\ userSeq' = update.seq
       /\ handedOut' = handedOut \o
              (IF g.userSeq # userSeq THEN <<g.userSeq>> ELSE <<>>) \o <<update.seq>>
       /\ lastUpdate' = update
       /\ EmitUpdate(update.filter, 0)
       /\ UNCHANGED <<sessions, sessionMessages, sessionSeqs, artifacts, uuidCtr, batch,
                      connVars, rpcVars, daemonVars>>

\* ─── Authentication (p2pAuth.ts) ────────────────────────────────────────

\* the daemon's secret and some other 32 bytes
SharedSecret == "k1"
OtherSecret == "k2"

\* the secrets a daemon may have generated
Secrets == {SharedSecret, OtherSecret}


\* the hex digest of HMAC-SHA256(sharedSecret, "p2p-auth"): 64 characters that
\* depend on the secret and on nothing else
deriveBearerToken(sharedSecret) ==
    [len |-> 64, hex |-> <<"hmac-sha256", sharedSecret, "p2p-auth">>]

\* a plausible bug: a token of the right length passes
verifyBearerTokenByLength(token, sharedSecret) ==
    token.len = deriveBearerToken(sharedSecret).len


\* length first, then the timing-safe comparison of the bytes
verifyBearerToken(token, sharedSecret) ==
    LET expected == deriveBearerToken(sharedSecret)
    IN IF token.len # expected.len THEN FALSE ELSE token.hex = expected.hex

\* auth.token missing or empty
NoToken == [len |-> 0, hex |-> <<>>]

\* the first half of the right digest
ShortToken == [len |-> 32, hex |-> <<"hmac-sha256", SharedSecret, "p2p-auth">>]

\* ─── HTTP requests of the public server (p2pServer.ts, p2pRestRoutes.ts) ─

\* request.url as its path segments: "/v1/sessions" is <<"v1", "sessions">>
Health == <<"health">>
Urls == {Health, <<"index.html">>, <<"v1">>, <<"v1", "sessions">>, <<"v1", "sessions", ":sessionId">>, <<"v1", "machines">>, <<"v2", "sessions">>}
HttpMethods == {"GET", "POST", "DELETE", "OPTIONS"}

\* the Authorization header: absent, or "<scheme> <credentials>"
NoAuthorization == [scheme |-> "none", credentials |-> NoToken]

Authorizations ==
    {NoAuthorization} \cup [scheme : {"Bearer"}, credentials : {deriveBearerToken(SharedSecret), deriveBearerToken(OtherSecret), ShortToken, NoToken}]
           \cup [scheme : {"Basic"}, credentials : {deriveBearerToken(SharedSecret)}]

Requests == [method : HttpMethods, url : Urls, authorization : Authorizations]

\* request.url.startsWith('/v1/') and the like
startsWith(url, segment) == Len(url) >= 2 /\ url[1] = segment

\* the status a hook has sent, 0 when it sent none
NotSent == 0

\* the CORS hook answers every preflight itself
corsHook(request) == IF request.method = "OPTIONS" THEN 204 ELSE NotSent

\* a plausible bug: any Bearer header passes
authHookUnverified(request) ==
    IF request.url = Health THEN NotSent
    ELSE IF ~startsWith(request.url, "v1") /\ ~startsWith(request.url, "v2") THEN NotSent
    ELSE IF request.authorization = NoAuthorization \/ request.authorization.scheme # "Bearer" THEN 401
    ELSE NotSent

\* the auth hook of the REST routes
authHook(request) ==
    IF request.url = Health THEN NotSent
    ELSE IF ~startsWith(request.url, "v1") /\ ~startsWith(request.url, "v2") THEN NotSent
    ELSE IF request.authorization = NoAuthorization \/ request.authorization.scheme # "Bearer" THEN 401
    ELSE IF ~verifyBearerToken(request.authorization.credentials, SharedSecret) THEN 401
    ELSE NotSent

\* the onRequest hooks in the order they were added; a reply that is sent
\* ends the request
onRequest(request) ==
    IF corsHook(request) # NotSent THEN corsHook(request) ELSE authHook(request)

NoRequest == [method |-> "none", url |-> <<>>, authorization |-> NoAuthorization]
NoHttp == [request |-> NoRequest, status |-> 0, handled |-> FALSE]

\* a reply sent by a hook: no route handler runs
Refused(request) ==
    /\ lastHttp' = [request |-> request, status |-> onRequest(request), handled |-> FALSE]
    /\ lastUpdate' = NoUpdate
    /\ lastEmit' = NoEmit
    /\ UNCHANGED <<storeVars, handedOut, batch, connVars, rpcVars, daemonVars>>

\* POST /v1/sessions as a request
HttpPostSessions(request, tag, metadata, agentState) ==
    /\ request.method = "POST" /\ request.url = <<"v1", "sessions">>
    /\ IF onRequest(request) # NotSent
       THEN Refused(request)
       ELSE /\ PostSessions(tag, metadata, agentState)
            /\ lastHttp' = [request |-> request, status |-> 200, handled |-> TRUE]

\* DELETE /v1/sessions/:sessionId as a request
HttpDeleteSession(request, sid) ==
    /\ request.method = "DELETE" /\ request.url = <<"v1", "sessions", ":sessionId">>
    /\ IF onRequest(request) # NotSent
       THEN Refused(request)
       ELSE /\ DeleteSessionRoute(sid)
            /\ lastHttp' = [request |-> request, handled |-> TRUE,
                            status |-> IF sid \in DOMAIN sessions THEN 200 ELSE 404]

\* POST /v1/machines as a request
HttpPostMachines(request, id, metadata, daemonState) ==
    /\ request.method = "POST" /\ request.url = <<"v1", "machines">>
    /\ IF onRequest(request) # NotSent
       THEN Refused(request)
       ELSE /\ PostMachines(id, metadata, daemonState)
            /\ lastHttp' = [request |-> request, status |-> 200, handled |-> TRUE]

\* the routes that only read: GET /health, /v1/sessions, /v1/machines, /v2/sessions
ReadRoutes == {Health, <<"v1", "sessions">>, <<"v1", "machines">>, <<"v2", "sessions">>}

HttpGet(request) ==
    /\ request.method = "GET" /\ request.url \in ReadRoutes
    /\ IF onRequest(request) # NotSent
       THEN Refused(request)
       ELSE /\ lastHttp' = [request |-> request, status |-> 200, handled |-> TRUE]
            /\ lastUpdate' = NoUpdate
            /\ lastEmit' = NoEmit
            /\ UNCHANGED <<storeVars, handedOut, batch, connVars, rpcVars, daemonVars>>

\* the methods a url has a route for
Routed(url) ==
    IF url \in {<<"v1", "sessions">>, <<"v1", "machines">>} THEN {"GET", "POST"}
    ELSE IF url = <<"v1", "sessions", ":sessionId">> THEN {"DELETE"}
    ELSE IF url \in ReadRoutes THEN {"GET"}
    ELSE {}

\* no route matches: the not-found handler (a GET outside /v1/ and /v2/ is
\* served index.html)
HttpNotFound(request) ==
    /\ request.method \notin Routed(request.url)
    /\ IF onRequest(request) # NotSent
       THEN Refused(request)
       ELSE /\ lastHttp' = [request |-> request, handled |-> FALSE,
                            status |-> IF /\ request.method = "GET"
                                          /\ ~startsWith(request.url, "v1")
                                          /\ ~startsWith(request.url, "v2")
                                       THEN 200 ELSE 404]
            /\ lastUpdate' = NoUpdate
            /\ lastEmit' = NoEmit
            /\ UNCHANGED <<storeVars, handedOut, batch, connVars, rpcVars, daemonVars>>

\* ─── Handshake and disconnect (p2pServer.ts, p2pSocketHandlers.ts) ──────

NoRpc == [op |-> "none", method |-> NULL, socket |-> 0, reply |-> "none"]

\* io.use: the middleware lets the handshake through
ioUse(auth) == ~(auth.token = NoToken \/ ~verifyBearerToken(auth.token, SharedSecret))

\* io.on('connection'): clientType || 'user-scoped', ids taken as they come
onConnection(conns, socket, auth) ==
    MapSet(conns, socket,
        [connectionType |-> IF auth.clientType = NULL THEN "user-scoped" ELSE auth.clientType,
         sessionId |-> auth.sessionId,
         machineId |-> auth.machineId,
         token |-> auth.token])

Handshake(auth) ==
    /\ IF ioUse(auth)
       THEN /\ connections' = onConnection(connections, nextSocket + 1, auth)
            /\ nextSocket' = nextSocket + 1
       ELSE UNCHANGED connVars
    /\ lastEmit' = NoEmit
    /\ lastRpc' = NoRpc
    /\ UNCHANGED <<hostVars, storeVars, histVars, rpcListeners, calls, released>>

\* a plausible bug: the connection leaves the router, its bindings stay
OnDisconnectLeak(socket) ==
    /\ socket \in DOMAIN connections
    /\ connections' = MapDelete(connections, socket)
    /\ lastEmit' = NoEmit
    /\ lastRpc' = NoRpc
    /\ UNCHANGED <<hostVars, storeVars, histVars, nextSocket, rpcListeners, calls, released>>

\* 'disconnect': drop the socket's bindings, then router.removeConnection
OnDisconnect(socket) ==
    /\ socket \in DOMAIN connections
    /\ rpcListeners' = [m \in {x \in DOMAIN rpcListeners : rpcListeners[x] # socket}
                           |-> rpcListeners[m]]
    /\ released' = released \cup {m \in DOMAIN rpcListeners : rpcListeners[m] = socket}
    /\ connections' = MapDelete(connections, socket)
    /\ lastEmit' = NoEmit
    /\ lastRpc' = NoRpc
    /\ UNCHANGED <<hostVars, storeVars, histVars, nextSocket, calls>>

\* ─── RPC registry (p2pSocketHandlers.ts) ────────────────────────────────

\* a plausible bug: no rpcListeners.has(method) check, Map.set overwrites
RpcRegisterOverwrite(socket, method) ==
    /\ socket \in DOMAIN connections
    /\ rpcListeners' = MapSet(rpcListeners, method, socket)
    /\ lastRpc' = [op |-> "rpc-register", method |-> method, socket |-> socket,
                   reply |-> "rpc-registered"]
    /\ lastEmit' = NoEmit
    /\ UNCHANGED <<hostVars, storeVars, histVars, connVars, calls, released>>

RpcRegister(socket, method) ==
    /\ socket \in DOMAIN connections
    /\ IF method \in DOMAIN rpcListeners
       THEN /\ lastRpc' = [op |-> "rpc-register", method |-> method, socket |-> socket,
                           reply |-> "rpc-error"]
            /\ UNCHANGED rpcListeners
       ELSE /\ rpcListeners' = MapSet(rpcListeners, method, socket)
            /\ lastRpc' = [op |-> "rpc-register", method |-> method, socket |-> socket,
                           reply |-> "rpc-registered"]
    /\ lastEmit' = NoEmit
    /\ UNCHANGED <<hostVars, storeVars, histVars, connVars, calls, released>>

RpcUnregister(socket, method) ==
    /\ socket \in DOMAIN connections
    /\ IF method \notin DOMAIN rpcListeners \/ rpcListeners[method] # socket
       THEN /\ lastRpc' = [op |-> "rpc-unregister", method |-> method, socket |-> socket,
                           reply |-> "rpc-error"]
            /\ UNCHANGED rpcListeners
       ELSE /\ rpcListeners' = MapDelete(rpcListeners, method)
            /\ lastRpc' = [op |-> "rpc-unregister", method |-> method, socket |-> socket,
                           reply |-> "rpc-unregistered"]
    /\ lastEmit' = NoEmit
    /\ UNCHANGED <<hostVars, storeVars, histVars, connVars, calls, released>>

\* ─── RPC calls (p2pSocketHandlers.ts) ───────────────────────────────────

\* listener.socket.timeout(30000)
RpcTimeoutMs == 30000

\* the time that passes in one step of the clock
TickMs == RpcTimeoutMs \div TicksPerTimeout

\* callback(response): one more reply to the caller of call id
Callback(cs, id, ok, result, error, done) ==
    [cs EXCEPT ![id] = [@ EXCEPT
        !.replies = Append(@, [ok |-> ok, result |-> result, error |-> error,
                               remaining |-> cs[id].remaining,
                               ownerConnected |-> cs[id].target \in DOMAIN connections]),
        !.state = IF done THEN "answered" ELSE @]]

\* 'rpc-call' up to its await: no listener answers at once, else the
\* request goes to the owner and the 30 s timer starts
RpcCall(socket, method) ==
    /\ socket \in DOMAIN connections
    /\ LET id == Len(calls) + 1
           fresh == [caller |-> socket, method |-> method, target |-> 0, remaining |-> 0,
                     state |-> "awaiting", replies |-> <<>>]
       IN IF method \notin DOMAIN rpcListeners
          THEN calls' = Callback(Append(calls, fresh), id, FALSE, NULL,
                                 "No handler registered for method", TRUE)
          ELSE calls' = Append(calls, [fresh EXCEPT !.target = rpcListeners[method],
                                                    !.remaining = RpcTimeoutMs])
    /\ lastEmit' = NoEmit
    /\ lastRpc' = NoRpc
    /\ UNCHANGED <<hostVars, storeVars, histVars, connVars, rpcListeners, released>>

\* a plausible bug: the acknowledgement is passed on but the await is not over
RpcCallResolvedStillPending(id, response) ==
    /\ id \in DOMAIN calls
    /\ calls[id].state = "awaiting"
    /\ calls[id].target \in DOMAIN connections
    /\ calls[id].remaining > 0
    /\ calls' = Callback(calls, id, TRUE, response, NULL, FALSE)
    /\ lastEmit' = NoEmit
    /\ lastRpc' = NoRpc
    /\ UNCHANGED <<hostVars, storeVars, histVars, connVars, rpcListeners, released>>

\* the await resolves: the owner, still connected, acknowledged in time
RpcCallResolved(id, response) ==
    /\ id \in DOMAIN calls
    /\ calls[id].state = "awaiting"
    /\ calls[id].target \in DOMAIN connections
    /\ calls[id].remaining > 0
    /\ calls' = Callback(calls, id, TRUE, response, NULL, TRUE)
    /\ lastEmit' = NoEmit
    /\ lastRpc' = NoRpc
    /\ UNCHANGED <<hostVars, storeVars, histVars, connVars, rpcListeners, released>>

\* the await rejects: the timer ran out, or the library gave up on a socket
\* that is gone (whether it does so before the timer is up to the library)
RpcCallRejected(id) ==
    /\ id \in DOMAIN calls
    /\ calls[id].state = "awaiting"
    /\ calls[id].remaining = 0 \/ calls[id].target \notin DOMAIN connections
    /\ calls' = Callback(calls, id, FALSE, NULL,
                         IF calls[id].remaining = 0 THEN "operation has timed out"
                         ELSE "socket has been disconnected", TRUE)
    /\ lastEmit' = NoEmit
    /\ lastRpc' = NoRpc
    /\ UNCHANGED <<hostVars, storeVars, histVars, connVars, rpcListeners, released>>

\* time passes for every running timer
Tick ==
    /\ \E id \in DOMAIN calls : calls[id].state = "awaiting" /\ calls[id].remaining > 0
    /\ calls' = [id \in DOMAIN calls |->
                    IF calls[id].state = "awaiting" /\ calls[id].remaining > 0
                    THEN [calls[id] EXCEPT !.remaining =
                              IF @ > TickMs THEN @ - TickMs ELSE 0]
                    ELSE calls[id]]
    /\ lastEmit' = NoEmit
    /\ lastRpc' = NoRpc
    /\ UNCHANGED <<hostVars, storeVars, histVars, connVars, rpcListeners, released>>

\* ─── Daemon lifecycle (daemon/run.ts: startDaemon) ──────────────────────

\* the PIDs of the daemon processes and of the session processes
Daemons == 1..MaxDaemons
Children == 1..MaxChildren

\* packageJson.version of the CLI on disk: as installed, and after an upgrade
Versions == {1, 2}

NoPid == 0
NoState == [pid |-> NoPid, startedWithCliVersion |-> 0]

\* a process that startDaemon() has not been called in yet
NotStarted ==
    [pc |-> "none", version |-> 0, lock |-> "none", shutdown |-> "none", watchdog |-> FALSE,
     interval |-> FALSE, heartbeat |-> "idle", terminalOpenedForTmux |-> FALSE,
     lostStateFile |-> FALSE, exitCode |-> -1]

\* the process is alive
Alive(d) == daemons[d].pc \notin {"none", "exited"}

\* the control server answers: from startDaemonControlServer to stopControlServer
ControlServerUp(d) == daemons[d].pc \in {"serving", "running", "stopping"}

\* requestShutdown(source): arms the 1 s watchdog and resolves the promise,
\* which keeps the source of its first resolution
requestShutdown(r, source) ==
    [r EXCEPT !.shutdown = IF @ = "none" THEN source ELSE @, !.watchdog = TRUE]

\* process.exit(code): the process is gone with its timers and its memory;
\* what became of its lock handle and its exit code stay on record
exit(r, code) ==
    [NotStarted EXCEPT !.pc = "exited", !.exitCode = code, !.lock = r.lock]

\* a plausible bug: no lock handle is a failure, exit code 1
onLockDeniedFatal(r) == [exit(r, 1) EXCEPT !.lock = "denied"]

\* `if (!daemonLockHandle) process.exit(0)`
onLockDenied(r) == [exit(r, 0) EXCEPT !.lock = "denied"]

\* the persisted state names a daemon of the version of this CLI
isDaemonRunningCurrentlyInstalledRemcliVersion(state, version) ==
    state # NoState /\ state.startedWithCliVersion = version

\* stopDaemon(): the daemon the state file names is told to stop through its
\* control server, or killed when that does not answer
stopDaemon(ds, state) ==
    IF state = NoState \/ ds[state.pid].pc \in {"none", "exited"} THEN ds
    ELSE IF ds[state.pid].pc \in {"serving", "running", "stopping"}
         THEN [ds EXCEPT ![state.pid] = requestShutdown(@, "remcli-cli")]
         ELSE [ds EXCEPT ![state.pid] = exit(@, 137)]

\* acquireDaemonLock: the lock file is created if it is absent
acquireDaemonLock(lock, pid) == IF lock = NoPid THEN pid ELSE lock

\* releaseDaemonLock: the lock file is removed
releaseDaemonLock(lock, pid) == NoPid

\* writeDaemonState(fileState)
writeDaemonState(pid, version) == [pid |-> pid, startedWithCliVersion |-> version]

\* `remcli daemon start-sync`: a new process enters startDaemon()
Invoke(d) ==
    /\ daemons[d].pc = "none"
    /\ \A n \in Daemons : n < d => daemons[n].pc # "none"
    /\ daemons' = [daemons EXCEPT ![d] = [@ EXCEPT !.pc = "versionCheck", !.version = diskVersion]]
    /\ UNCHANGED <<serverVars, lockFile, stateFile, diskVersion, childVars>>

\* the package on disk is upgraded
Upgrade ==
    /\ diskVersion = 1
    /\ \E d \in Daemons : Alive(d)
    /\ diskVersion' = 2
    /\ UNCHANGED <<serverVars, lockFile, stateFile, daemons, childVars>>

\* the version check: a daemon of this version is running and this process
\* exits 0, or the old daemon is stopped and this one goes on
VersionCheck(d) ==
    /\ daemons[d].pc = "versionCheck"
    /\ IF isDaemonRunningCurrentlyInstalledRemcliVersion(stateFile, daemons[d].version)
       THEN daemons' = [daemons EXCEPT ![d] = exit(@, 0)]
       ELSE daemons' = [stopDaemon(daemons, stateFile) EXCEPT ![d] = [@ EXCEPT !.pc = "acquire"]]
    /\ UNCHANGED <<serverVars, lockFile, stateFile, diskVersion, childVars>>

\* a plausible bug: the daemon starts whether or not it got the lock
AcquireLockUnchecked(d) ==
    /\ daemons[d].pc = "acquire"
    /\ lockFile' = acquireDaemonLock(lockFile, d)
    /\ daemons' = [daemons EXCEPT ![d] = [@ EXCEPT !.pc = "starting", !.lock = "held"]]
    /\ UNCHANGED <<serverVars, stateFile, diskVersion, childVars>>

\* the exclusive lock: without it the process exits 0
AcquireLock(d) ==
    /\ daemons[d].pc = "acquire"
    /\ lockFile' = acquireDaemonLock(lockFile, d)
    /\ daemons' = [daemons EXCEPT ![d] =
            IF lockFile' = d THEN [@ EXCEPT !.pc = "starting", !.lock = "held"]
            ELSE onLockDenied(@)]
    /\ UNCHANGED <<serverVars, stateFile, diskVersion, childVars>>

\* tmux is not installed: the lock is released and the process exits 1
TmuxMissing(d) ==
    /\ daemons[d].pc = "starting"
    /\ lockFile' = releaseDaemonLock(lockFile, d)
    /\ daemons' = [daemons EXCEPT ![d] = exit([@ EXCEPT !.lock = "released"], 1)]
    /\ UNCHANGED <<serverVars, stateFile, diskVersion, childVars>>

\* the control server is started and the initial daemon state written
StartControlServer(d) ==
    /\ daemons[d].pc = "starting"
    /\ stateFile' = writeDaemonState(d, daemons[d].version)
    /\ daemons' = [daemons EXCEPT ![d] = [@ EXCEPT !.pc = "serving"]]
    /\ pidToTrackedSession' = [pidToTrackedSession EXCEPT ![d] = <<>>]
    /\ pidToAwaiter' = [pidToAwaiter EXCEPT ![d] = {}]
    /\ UNCHANGED <<serverVars, lockFile, diskVersion, children, signalled, lastWebhook, spawnVars>>

\* startP2PServer throws: the catch of startDaemon exits 1
StartupThrows(d) ==
    /\ daemons[d].pc = "serving"
    /\ daemons' = [daemons EXCEPT ![d] = exit(@, 1)]
    /\ UNCHANGED <<serverVars, lockFile, stateFile, diskVersion, childVars>>

\* the P2P server is up, the state file is written again, the heartbeat
\* interval is set and startDaemon awaits the shutdown request
StartServing(d) ==
    /\ daemons[d].pc = "serving"
    /\ stateFile' = writeDaemonState(d, daemons[d].version)
    /\ daemons' = [daemons EXCEPT ![d] = [@ EXCEPT !.pc = "running", !.interval = TRUE]]
    /\ UNCHANGED <<serverVars, lockFile, diskVersion, childVars>>

\* SIGINT / SIGTERM, uncaughtException / unhandledRejection
ProcessEvents == {"os-signal", "exception"}

OnProcessEvent(d, source) ==
    /\ Alive(d)
    /\ daemons' = [daemons EXCEPT ![d] = requestShutdown(@, source)]
    /\ UNCHANGED <<serverVars, lockFile, stateFile, diskVersion, childVars>>

\* POST /stop of the control server, and the 'stop-daemon' RPC
StopRequests == {"remcli-cli", "remcli-app"}

OnStopRequest(d, source) ==
    /\ IF source = "remcli-cli" THEN ControlServerUp(d) ELSE daemons[d].pc = "running"
    /\ daemons' = [daemons EXCEPT ![d] = requestShutdown(@, source)]
    /\ UNCHANGED <<serverVars, lockFile, stateFile, diskVersion, childVars>>

\* the 1 s watchdog of requestShutdown fires
Watchdog(d) ==
    /\ Alive(d)
    /\ daemons[d].watchdog
    /\ daemons' = [daemons EXCEPT ![d] = exit(@, 1)]
    /\ UNCHANGED <<serverVars, lockFile, stateFile, diskVersion, childVars>>

\* a plausible bug: the outdated daemon hangs without spawning `daemon start`
HeartbeatNoSpawn(d) ==
    /\ Alive(d)
    /\ daemons[d].interval
    /\ daemons[d].heartbeat = "idle"
    /\ pidToTrackedSession' = [pidToTrackedSession EXCEPT ![d] =
            [pid \in {p \in DOMAIN @ : children[p].alive} |-> @[pid]]]
    /\ IF diskVersion # daemons[d].version
       THEN daemons' = [daemons EXCEPT ![d] = [@ EXCEPT !.interval = FALSE, !.heartbeat = "hanging"]]
       ELSE daemons' = [daemons EXCEPT ![d] = [@ EXCEPT !.heartbeat = "reading"]]
    /\ UNCHANGED <<serverVars, lockFile, stateFile, diskVersion, pidToAwaiter, children, signalled, lastWebhook, spawnVars>>

\* a heartbeat up to its first await: stale sessions are pruned; an upgraded
\* package makes the daemon spawn `daemon start` and hang, else the state
\* file is read
Heartbeat(d) ==
    /\ Alive(d)
    /\ daemons[d].interval
    /\ daemons[d].heartbeat = "idle"
    /\ pidToTrackedSession' = [pidToTrackedSession EXCEPT ![d] =
            [pid \in {p \in DOMAIN @ : children[p].alive} |-> @[pid]]]
    /\ IF diskVersion # daemons[d].version
       THEN LET fresh == {n \in Daemons : daemons[n].pc = "none"}
                hang == [daemons EXCEPT ![d] = [@ EXCEPT !.interval = FALSE, !.heartbeat = "hanging"]]
            IN daemons' = IF fresh = {} THEN hang
                          ELSE [hang EXCEPT ![CHOOSE n \in fresh : \A m \in fresh : n <= m] =
                                   [@ EXCEPT !.pc = "versionCheck", !.version = diskVersion]]
       ELSE daemons' = [daemons EXCEPT ![d] = [@ EXCEPT !.heartbeat = "reading"]]
    /\ UNCHANGED <<serverVars, lockFile, stateFile, diskVersion, pidToAwaiter, children, signalled, lastWebhook, spawnVars>>

\* the hanging daemon was not killed in 10 s: process.exit(0)
HeartbeatHangEnds(d) ==
    /\ Alive(d)
    /\ daemons[d].heartbeat = "hanging"
    /\ daemons' = [daemons EXCEPT ![d] = exit(@, 0)]
    /\ UNCHANGED <<serverVars, lockFile, stateFile, diskVersion, childVars>>

\* the heartbeat after readDaemonState(): another PID in the state file
\* requests the shutdown; the state file is written
HeartbeatWrite(d) ==
    /\ Alive(d)
    /\ daemons[d].heartbeat = "reading"
    /\ LET other == stateFile # NoState /\ stateFile.pid # d
           r == IF other THEN [requestShutdown(daemons[d], "exception") EXCEPT !.lostStateFile = TRUE]
                ELSE daemons[d]
       IN daemons' = [daemons EXCEPT ![d] = [r EXCEPT !.heartbeat = "idle"]]
    /\ stateFile' = writeDaemonState(d, daemons[d].version)
    /\ UNCHANGED <<serverVars, lockFile, diskVersion, childVars>>

\* cleanupAndShutdown up to its first await: the heartbeat interval is
\* cleared, the machine socket closed, every tracked session sent SIGTERM
\* and the map cleared
CleanupAndShutdown(d) ==
    /\ daemons[d].pc = "running"
    /\ daemons[d].shutdown # "none"
    /\ daemons' = [daemons EXCEPT ![d] = [@ EXCEPT !.pc = "stopping", !.interval = FALSE]]
    /\ signalled' = signalled \cup DOMAIN pidToTrackedSession[d]
    /\ pidToTrackedSession' = [pidToTrackedSession EXCEPT ![d] = <<>>]
    /\ UNCHANGED <<serverVars, lockFile, stateFile, diskVersion, pidToAwaiter, children, lastWebhook, spawnVars>>

\* the tmux session is killed, the tunnel, the P2P server and the control
\* server are stopped
CleanupStopServers(d) ==
    /\ daemons[d].pc = "stopping"
    /\ daemons' = [daemons EXCEPT ![d] = [@ EXCEPT !.pc = "stopped"]]
    /\ UNCHANGED <<serverVars, lockFile, stateFile, diskVersion, childVars>>

\* cleanupDaemonState(): the state file is deleted
CleanupDaemonState(d) ==
    /\ daemons[d].pc = "stopped"
    /\ stateFile' = NoState
    /\ daemons' = [daemons EXCEPT ![d] = [@ EXCEPT !.pc = "deleted"]]
    /\ UNCHANGED <<serverVars, lockFile, diskVersion, childVars>>

\* stopCaffeinate(), releaseDaemonLock(daemonLockHandle)
CleanupReleaseLock(d) ==
    /\ daemons[d].pc = "deleted"
    /\ lockFile' = releaseDaemonLock(lockFile, d)
    /\ daemons' = [daemons EXCEPT ![d] = [@ EXCEPT !.pc = "released", !.lock = "released"]]
    /\ UNCHANGED <<serverVars, stateFile, diskVersion, childVars>>

\* cleanup completed: process.exit(0)
CleanupExit(d) ==
    /\ daemons[d].pc = "released"
    /\ daemons' = [daemons EXCEPT ![d] = exit(@, 0)]
    /\ UNCHANGED <<serverVars, lockFile, stateFile, diskVersion, childVars>>

\* ─── Session supervision (daemon/run.ts: spawnSession, webhook) ─────────

External == "remcli directly - likely by user from terminal"

\* a PID no session process has had yet
NoChild ==
    [by |-> NoPid, pc |-> "none", result |-> "none", sessionId |-> 0,
     reportedInTime |-> FALSE, alive |-> FALSE]

NoWebhook == [daemon |-> NoPid, sessionId |-> 0, pid |-> NoPid, turn |-> FALSE]

\* the OS gives a new process a PID no process has had
Fresh(pid) == children[pid].pc = "none" /\ \A p \in Children : p < pid => children[p].pc # "none"

\* the id of the session a session process creates and reports
SessionOf(pid) == 10 + pid

\* the tracked session spawnSession creates: no remcliSessionId yet
trackedSession == [startedBy |-> "daemon", remcliSessionId |-> 0]

\* existingSession.remcliSessionId = sessionId
reported(existingSession, sessionId) ==
    [existingSession EXCEPT !.remcliSessionId = sessionId]

\* a plausible bug: whatever is tracked at the PID is replaced by an
\* externally started session
onRemcliSessionWebhookReplaces(tracked, sessionId, pid) ==
    IF pid = NoPid THEN tracked
    ELSE MapSet(tracked, pid, [startedBy |-> External, remcliSessionId |-> sessionId])

\* onRemcliSessionWebhook on the map of tracked sessions
onRemcliSessionWebhook(tracked, sessionId, pid) ==
    IF pid = NoPid THEN tracked
    ELSE IF pid \in DOMAIN tracked /\ tracked[pid].startedBy = "daemon"
         THEN MapSet(tracked, pid, reported(tracked[pid], sessionId))
    ELSE IF pid \notin DOMAIN tracked
         THEN MapSet(tracked, pid, [startedBy |-> External, remcliSessionId |-> sessionId])
    ELSE tracked

\* a user starts a session from a terminal
SessionStartedByUser(pid) ==
    /\ Fresh(pid)
    /\ children' = [children EXCEPT ![pid] = [@ EXCEPT !.pc = "external", !.alive = TRUE]]
    /\ UNCHANGED <<serverVars, lockFile, stateFile, daemons, diskVersion, pidToTrackedSession, pidToAwaiter, signalled, lastWebhook, spawnVars>>

\* a session process ends
SessionExits(pid) ==
    /\ children[pid].alive
    /\ children' = [children EXCEPT ![pid] = [@ EXCEPT !.alive = FALSE]]
    /\ UNCHANGED <<serverVars, lockFile, stateFile, daemons, diskVersion, pidToTrackedSession, pidToAwaiter, signalled, lastWebhook, spawnVars>>

\* spawnSession up to `await tmux.spawnInTmux`: the session process is
\* launched in a tmux window
SpawnSession(d, pid) ==
    /\ ControlServerUp(d)
    /\ Fresh(pid)
    /\ children' = [children EXCEPT ![pid] = [@ EXCEPT !.by = d, !.pc = "launched", !.alive = TRUE]]
    /\ UNCHANGED <<serverVars, lockFile, stateFile, daemons, diskVersion, pidToTrackedSession, pidToAwaiter, signalled, lastWebhook, spawnVars>>

\* spawnSession resumes with the PID: the session is tracked; the first time
\* it awaits `tmux list-clients`, later it installs the awaiter at once
SpawnTracks(d, pid) ==
    /\ Alive(d)
    /\ children[pid].by = d /\ children[pid].pc = "launched"
    /\ pidToTrackedSession' = [pidToTrackedSession EXCEPT ![d] = MapSet(@, pid, trackedSession)]
    /\ IF daemons[d].terminalOpenedForTmux
       THEN /\ pidToAwaiter' = [pidToAwaiter EXCEPT ![d] = @ \cup {pid}]
            /\ children' = [children EXCEPT ![pid] = [@ EXCEPT !.pc = "awaiting"]]
       ELSE /\ children' = [children EXCEPT ![pid] = [@ EXCEPT !.pc = "recorded"]]
            /\ UNCHANGED pidToAwaiter
    /\ UNCHANGED <<serverVars, lockFile, stateFile, daemons, diskVersion, signalled, lastWebhook, spawnVars>>

\* spawnSession resumes from `tmux list-clients`: a terminal is opened when
\* no client is attached; the awaiter and its timeout are installed
SpawnAwaits(d, pid, hasClients) ==
    /\ Alive(d)
    /\ children[pid].by = d /\ children[pid].pc = "recorded"
    /\ daemons' = [daemons EXCEPT ![d] = [@ EXCEPT !.terminalOpenedForTmux = @ \/ ~hasClients]]
    /\ pidToAwaiter' = [pidToAwaiter EXCEPT ![d] = @ \cup {pid}]
    /\ children' = [children EXCEPT ![pid] = [@ EXCEPT !.pc = "awaiting"]]
    /\ UNCHANGED <<serverVars, lockFile, stateFile, diskVersion, pidToTrackedSession, signalled, lastWebhook, spawnVars>>

\* POST /session-started: a live session process reports itself; the awaiter
\* of a daemon-spawned session resolves its spawn with success
OnSessionStarted(d, sessionId, pid) ==
    /\ ControlServerUp(d)
    /\ pid # NoPid => children[pid].alive
    /\ lastWebhook' = [daemon |-> d, sessionId |-> sessionId, pid |-> pid, turn |-> ~lastWebhook.turn]
    /\ pidToTrackedSession' = [pidToTrackedSession EXCEPT ![d] = onRemcliSessionWebhook(@, sessionId, pid)]
    /\ LET existing == pid # NoPid /\ pid \in DOMAIN pidToTrackedSession[d]
                          /\ pidToTrackedSession[d][pid].startedBy = "daemon"
           awaited == existing /\ pid \in pidToAwaiter[d]
           inTime == pid # NoPid /\ children[pid].by = d
                          /\ children[pid].pc \in {"launched", "recorded", "awaiting"}
       IN /\ pidToAwaiter' = [pidToAwaiter EXCEPT ![d] = IF awaited THEN @ \ {pid} ELSE @]
          /\ children' = IF pid = NoPid THEN children
                ELSE [children EXCEPT ![pid] = [@ EXCEPT
                        !.reportedInTime = @ \/ inTime,
                        !.pc = IF awaited THEN "done" ELSE @,
                        !.result = IF awaited THEN "success" ELSE @,
                        !.sessionId = IF awaited THEN pidToTrackedSession'[d][pid].remcliSessionId ELSE @]]
    /\ UNCHANGED <<serverVars, lockFile, stateFile, daemons, diskVersion, signalled, spawnVars>>

\* the 15 s timeout of the awaiter fires: the awaiter is deleted and the
\* spawn resolves with an error
OnWebhookTimeout(d, pid) ==
    /\ Alive(d)
    /\ pid \in pidToAwaiter[d]
    /\ pidToAwaiter' = [pidToAwaiter EXCEPT ![d] = @ \ {pid}]
    /\ children' = [children EXCEPT ![pid] = [@ EXCEPT !.pc = "done", !.result = "timeout"]]
    /\ UNCHANGED <<serverVars, lockFile, stateFile, daemons, diskVersion, pidToTrackedSession, signalled, lastWebhook, spawnVars>>

\* stopSession(sessionId): a tracked session with that id, or with the PID
\* that a 'PID-<n>' id names (pidOf, NoPid for any other id), is sent
\* SIGTERM and removed from the map
StopSession(d, sessionId, pidOf) ==
    /\ ControlServerUp(d)
    /\ \E pid \in DOMAIN pidToTrackedSession[d] :
          /\ IF pidOf = NoPid THEN pidToTrackedSession[d][pid].remcliSessionId = sessionId
                              ELSE pid = pidOf
          /\ signalled' = signalled \cup {pid}
          /\ pidToTrackedSession' = [pidToTrackedSession EXCEPT ![d] = MapDelete(@, pid)]
    /\ UNCHANGED <<serverVars, lockFile, stateFile, daemons, diskVersion, pidToAwaiter, children, lastWebhook, spawnVars>>

\* ─── spawnSession before the launch (daemon/run.ts) ─────────────────────

\* the daemon's working directory, a project directory, and the directory
\* tmp.dirSync() makes for the codex credentials
Home == "/home"
Project == "/home/project"
CodexHome == "/tmp/codex"

\* an environment value: a literal, or a text holding a ${VAR} reference
Lit(text) == [ref |-> NULL, text |-> text]
Ref(name) == [ref |-> name, text |-> EMPTY]

\* process.env of the daemon
ProcessEnv == "Z_AI_AUTH_TOKEN" :> "sk-real-key"

\* no variables
NoEnv == <<>>

\* { ...a, ...b }
Spread(a, b) == [k \in DOMAIN a \cup DOMAIN b |-> IF k \in DOMAIN b THEN b[k] ELSE a[k]]

\* a reference to a variable the source environment defines is replaced by
\* its value; any other reference stays as it is written
expandEnvironmentVariables(env, sourceEnv) ==
    [k \in DOMAIN env |->
        IF env[k].ref # NULL /\ env[k].ref \in DOMAIN sourceEnv
        THEN Lit(sourceEnv[env[k].ref])
        ELSE env[k]]

potentialAuthVars == {"ANTHROPIC_AUTH_TOKEN", "CLAUDE_CODE_OAUTH_TOKEN", "OPENAI_API_KEY", "CODEX_HOME", "AZURE_OPENAI_API_KEY", "TOGETHER_API_KEY"}

\* the auth variables that are set and still include '${'
unexpandedAuthVars(extraEnv) ==
    {varName \in potentialAuthVars \cap DOMAIN extraEnv : extraEnv[varName].ref # NULL}

\* layer 1: the token goes to the agent's variable
authEnv(options) ==
    IF options.token = NULL THEN NoEnv
    ELSE IF options.agent = "codex" THEN "CODEX_HOME" :> Lit(CodexHome)
    ELSE "CLAUDE_CODE_OAUTH_TOKEN" :> Lit(options.token)

\* layer 2: the profile of the request, or else the active CLI profile
profileEnv(options, host) ==
    IF options.environmentVariables # NoEnv THEN options.environmentVariables
    ELSE host.localProfile

\* `approvedNewDirectoryCreation = true` in the destructuring: the default
\* stands in for undefined only
approvedNewDirectoryCreation(options) ==
    IF options.approvedNewDirectoryCreation = "undefined" THEN TRUE
    ELSE options.approvedNewDirectoryCreation = "true"

\* a plausible bug: only the layer of the token is validated, not the
\* merged and expanded environment
beforeLaunchUnvalidated(dirs, options, host) ==
    LET present == options.directory \in dirs
        made == dirs \cup {options.directory}
                     \cup (IF options.token # NULL /\ options.agent = "codex" THEN {CodexHome} ELSE {})
    IN IF ~present /\ ~approvedNewDirectoryCreation(options)
       THEN [type |-> "requestToApproveDirectoryCreation", directory |-> options.directory,
             errorMessage |-> <<>>, directories |-> dirs]
       ELSE IF ~present /\ ~host.mkdir
       THEN [type |-> "error", directory |-> NULL,
             errorMessage |-> <<"Unable to create directory at", options.directory>>,
             directories |-> dirs]
       ELSE IF unexpandedAuthVars(authEnv(options)) # {}
       THEN [type |-> "error", directory |-> NULL,
             errorMessage |-> <<"Authentication will fail", {}>>, directories |-> made]
       ELSE IF ~host.tmux
       THEN [type |-> "error", directory |-> NULL,
             errorMessage |-> <<"tmux is required for session spawning">>,
             directories |-> made]
       ELSE [type |-> "launch", directory |-> NULL, errorMessage |-> <<>>, directories |-> made]

\* spawnSession from its call to `await tmux.spawnInTmux`: what it returns
\* when it returns before the launch, and the directories it leaves
beforeLaunch(dirs, options, host) ==
    LET present == options.directory \in dirs
        made == dirs \cup {options.directory}
                     \cup (IF options.token # NULL /\ options.agent = "codex" THEN {CodexHome} ELSE {})
        extraEnv == expandEnvironmentVariables(Spread(profileEnv(options, host), authEnv(options)), ProcessEnv)
    IN IF ~present /\ ~approvedNewDirectoryCreation(options)
       THEN [type |-> "requestToApproveDirectoryCreation", directory |-> options.directory,
             errorMessage |-> <<>>, directories |-> dirs]
       ELSE IF ~present /\ ~host.mkdir
       THEN [type |-> "error", directory |-> NULL,
             errorMessage |-> <<"Unable to create directory at", options.directory>>,
             directories |-> dirs]
       ELSE IF unexpandedAuthVars(extraEnv) # {}
       THEN [type |-> "error", directory |-> NULL,
             errorMessage |-> <<"Authentication will fail",
                                {<<authVar, extraEnv[authVar].ref>> : authVar \in unexpandedAuthVars(extraEnv)}>>,
             directories |-> made]
       ELSE IF ~host.tmux
       THEN [type |-> "error", directory |-> NULL,
             errorMessage |-> <<"tmux is required for session spawning">>,
             directories |-> made]
       ELSE [type |-> "launch", directory |-> NULL, errorMessage |-> <<>>, directories |-> made]

\* no spawn was requested yet
NoSpawn == [type |-> "none", directory |-> NULL, approvedNewDirectoryCreation |-> "undefined",
            absent |-> FALSE, stillUnexpanded |-> FALSE, errorMessage |-> <<>>]

\* the spawn gets as far as the expansion, and afterwards an auth variable
\* still holds a reference
stillUnexpanded(dirs, options, host) ==
    /\ options.directory \in dirs \/ (approvedNewDirectoryCreation(options) /\ host.mkdir)
    /\ unexpandedAuthVars(expandEnvironmentVariables(
            Spread(profileEnv(options, host), authEnv(options)), ProcessEnv)) # {}

\* the request, what it met and what it returned
Returned(dirs, options, host, type, errorMessage) ==
    [type |-> type, directory |-> options.directory,
     approvedNewDirectoryCreation |-> options.approvedNewDirectoryCreation,
     absent |-> options.directory \notin dirs,
     stillUnexpanded |-> stillUnexpanded(dirs, options, host),
     errorMessage |-> errorMessage]

\* spawnSession returns before a session process is launched
SpawnReturnsEarly(d, options, host) ==
    LET r == beforeLaunch(directories, options, host)
    IN /\ ControlServerUp(d)
       /\ r.type # "launch"
       /\ directories' = r.directories
       /\ lastSpawn' = Returned(directories, options, host, r.type, r.errorMessage)
       /\ UNCHANGED <<serverVars, lockFile, stateFile, daemons, diskVersion, pidToTrackedSession, pidToAwaiter, children, signalled, lastWebhook>>

\* spawnSession gets as far as `await tmux.spawnInTmux`: the session
\* process is launched in a tmux window
SpawnLaunches(d, pid, options, host) ==
    LET r == beforeLaunch(directories, options, host)
    IN /\ ControlServerUp(d)
       /\ r.type = "launch"
       /\ Fresh(pid)
       /\ directories' = r.directories
       /\ lastSpawn' = Returned(directories, options, host, "launched", <<>>)
       /\ children' = [children EXCEPT ![pid] = [@ EXCEPT !.by = d, !.pc = "launched", !.alive = TRUE]]
       /\ UNCHANGED <<serverVars, lockFile, stateFile, daemons, diskVersion, pidToTrackedSession, pidToAwaiter, signalled, lastWebhook>>

\* ─── Daemon start-up (daemon/run.ts) ────────────────────────────────────

\* the daemon registers its own machine in the fresh Store right after the
\* server is up, in the same turn, before any client request can be served
StartUp == getOrCreateMachine(<<>>, 0, OwnMachineId, "a", "a")

\* and connects to its own server as a machine-scoped client
OwnAuth == [token |-> deriveBearerToken(SharedSecret), clientType |-> "machine-scoped",
            sessionId |-> 0, machineId |-> OwnMachineId]

\* ─── Clients deciding to write concurrently ─────────────────────────────

\* Writers clients have read the same current version of one field and
\* send their updates; from here on their replies are collected
SubmitBatch(field, sid, id) ==
    /\ batch = NoBatch
    /\ IF field \in {"session.metadata", "session.agentState"}
       THEN /\ id = NULL /\ sid \in DOMAIN sessions
            /\ batch' = [NoBatch EXCEPT !.field = field, !.sessionId = sid,
                            !.expectedVersion = IF field = "session.metadata"
                                                THEN sessions[sid].metadataVersion
                                                ELSE sessions[sid].agentStateVersion]
       ELSE /\ sid = 0 /\ id \in DOMAIN machines
            /\ batch' = [NoBatch EXCEPT !.field = field, !.id = id,
                            !.expectedVersion = IF field = "machine.metadata"
                                                THEN machines[id].metadataVersion
                                                ELSE machines[id].daemonStateVersion]
    /\ UNCHANGED <<storeVars, handedOut, lastUpdate, connVars, lastEmit, rpcVars, hostVars>>

\* ─── Specification of the Store and its handlers ────────────────────────

\* daemon 1 after its start-up: version 1, lock held, heartbeat set
Serving == [NotStarted EXCEPT !.pc = "running", !.version = 1, !.lock = "held", !.interval = TRUE]

\* the daemon is serving: its machine is registered, its own socket accepted
Init ==
    /\ sessions = <<>>
    /\ sessionMessages = <<>>
    /\ sessionSeqs = <<>>
    /\ machines = StartUp.machines
    /\ artifacts = <<>>
    /\ userSeq = StartUp.userSeq
    /\ uuidCtr = 0
    /\ handedOut = <<StartUp.userSeq>>
    /\ lastUpdate = NoUpdate
    /\ batch = NoBatch
    /\ connections = onConnection(<<>>, 1, OwnAuth)
    /\ nextSocket = 1
    /\ lastEmit = NoEmit
    /\ rpcListeners = <<>>
    /\ calls = <<>>
    /\ lastRpc = NoRpc
    /\ released = {}
    /\ lastHttp = NoHttp
    /\ lockFile = 1
    /\ stateFile = writeDaemonState(1, 1)
    /\ daemons = [d \in Daemons |-> IF d = 1 THEN Serving ELSE NotStarted]
    /\ diskVersion = 1
    /\ pidToTrackedSession = [d \in Daemons |-> <<>>]
    /\ pidToAwaiter = [d \in Daemons |-> {}]
    /\ children = [pid \in Children |-> NoChild]
    /\ signalled = {}
    /\ lastWebhook = NoWebhook
    /\ directories = {Home}
    /\ lastSpawn = NoSpawn

\* the counters are capped by the bounds
Bounded(maxSeq) ==
    /\ userSeq' <= maxSeq
    /\ uuidCtr' <= MaxSessions
    /\ \A sid \in DOMAIN sessionMessages' : Len(sessionMessages'[sid]) <= MaxMessages

SessionHandlers(n) ==
    \/ \E socket \in DOMAIN connections, sid \in SessionIds, content \in Contents :
          OnMessage(socket, sid, content) /\ Bounded(n)
    \/ \E socket \in DOMAIN connections, sid \in SessionIds, v \in Vals, ev \in ExpectedVersions :
          OnUpdateMetadata(socket, sid, v, ev) /\ Bounded(n)
    \/ \E socket \in DOMAIN connections, sid \in SessionIds, v \in {NULL, "b"},
          ev \in ExpectedVersions :
          OnUpdateState(socket, sid, v, ev) /\ Bounded(n)
    \/ \E socket \in DOMAIN connections, sid \in SessionIds, active \in BOOLEAN :
          OnSessionAliveOrEnd(socket, sid, active) /\ Bounded(n)
    \/ \E tag \in Tags, v \in Vals, st \in {NULL, "a"} :
          PostSessions(tag, v, st) /\ UNCHANGED lastHttp /\ Bounded(n)
    \/ \E sid \in SessionIds :
          DeleteSessionRoute(sid) /\ UNCHANGED lastHttp /\ Bounded(n)

MachineHandlers(n) ==
    \/ \E socket \in DOMAIN connections, mid \in MachineIds, v \in Vals, ev \in ExpectedVersions :
          OnMachineUpdateMetadata(socket, mid, v, ev) /\ Bounded(n)
    \/ \E socket \in DOMAIN connections, mid \in MachineIds, v \in Vals, ev \in ExpectedVersions :
          OnMachineUpdateState(socket, mid, v, ev) /\ Bounded(n)
    \/ \E mid \in MachineIds, v \in Vals, st \in {NULL, "b"} :
          PostMachines(mid, v, st) /\ UNCHANGED lastHttp /\ Bounded(n)

ArtifactHandlers(n) ==
    \/ \E socket \in DOMAIN connections, id \in ArtifactIds, h \in Vals, b \in Vals :
          OnArtifactCreate(socket, id, h, b) /\ Bounded(n)
    \/ \E socket \in DOMAIN connections, id \in ArtifactIds, h \in Parts, b \in Parts :
          OnArtifactUpdate(socket, id, h, b) /\ Bounded(n)
    \/ \E socket \in DOMAIN connections, id \in ArtifactIds :
          OnArtifactDelete(socket, id) /\ Bounded(n)

Next == SessionHandlers(MaxUserSeq) \/ MachineHandlers(MaxUserSeq) \/ ArtifactHandlers(MaxUserSeq)

Spec == Init /\ [][Next]_vars

\* ─── Specification of concurrent writers to session and machine fields ──
\* (the artifact handlers touch neither sessions nor machines)

Submit ==
    \E f \in {"session.metadata", "session.agentState", "machine.metadata", "machine.daemonState"},
       sid \in SessionIds \cup {0}, id \in MachineIds \cup {NULL} : SubmitBatch(f, sid, id)

NextOcc == SessionHandlers(MaxSeqOcc) \/ MachineHandlers(MaxSeqOcc) \/ Submit

SpecOcc == Init /\ [][NextOcc]_vars

\* ─── Specification of message appends ───────────────────────────────────
\* (only these handlers write sessionMessages or sessionSeqs)

NextMessages ==
    \/ \E socket \in DOMAIN connections, sid \in SessionIds, content \in Contents :
          OnMessage(socket, sid, content) /\ Bounded(MaxSeqMsgs)
    \/ \E tag \in Tags, v \in Vals, st \in {NULL, "a"} :
          PostSessions(tag, v, st) /\ UNCHANGED lastHttp /\ Bounded(MaxSeqMsgs)
    \/ \E sid \in SessionIds :
          DeleteSessionRoute(sid) /\ UNCHANGED lastHttp /\ Bounded(MaxSeqMsgs)
    \/ \E socket \in DOMAIN connections, sid \in SessionIds, active \in BOOLEAN :
          OnSessionAliveOrEnd(socket, sid, active) /\ Bounded(MaxSeqMsgs)

SpecMessages == Init /\ [][NextMessages]_vars

\* ─── Specification of connections and routing ───────────────────────────
\* clients come and go while sessions are created, written to and reported on

ValidToken == deriveBearerToken(SharedSecret)

HandshakeAuths ==
    [token : {ValidToken}, clientType : {NULL, "user-scoped"},
     sessionId : {0}, machineId : {NULL}] \cup
    [token : {ValidToken}, clientType : {"session-scoped"},
     sessionId : {0} \cup SessionIds, machineId : {NULL}] \cup
    [token : {ValidToken}, clientType : {"machine-scoped"},
     sessionId : {0}, machineId : {NULL} \cup MachineIds] \cup
    [token : {NoToken, ShortToken, deriveBearerToken(OtherSecret)},
     clientType : {"user-scoped"}, sessionId : {0}, machineId : {NULL}]

NextRouter ==
    \/ \E auth \in HandshakeAuths :
          Handshake(auth) /\ nextSocket' <= MaxConns
    \/ \E socket \in DOMAIN connections :
          OnDisconnect(socket)
    \/ PostSessions("t1", "a", NULL) /\ UNCHANGED lastHttp /\ Bounded(MaxSeqRouter)
    \/ \E socket \in DOMAIN connections, sid \in SessionIds :
          OnMessage(socket, sid, "c") /\ Bounded(MaxSeqRouter)
    \/ \E socket \in DOMAIN connections, mid \in MachineIds, ev \in ExpectedVersions :
          OnMachineUpdateMetadata(socket, mid, "b", ev) /\ Bounded(MaxSeqRouter)
    \/ \E socket \in DOMAIN connections, mid \in MachineIds :
          OnMachineAlive(socket, mid)
    \/ \E socket \in DOMAIN connections, sid \in {0, 1} :
          OnUsageReport(socket, sid)

SpecRouter == Init /\ [][NextRouter]_vars

\* ─── Specification of the RPC registry ──────────────────────────────────

UserAuth == [token |-> ValidToken, clientType |-> "user-scoped",
             sessionId |-> 0, machineId |-> NULL]

NextRegistry ==
    \/ Handshake(UserAuth) /\ nextSocket' <= MaxConnsRpc
    \/ \E socket \in DOMAIN connections :
          OnDisconnect(socket)
    \/ \E socket \in DOMAIN connections, method \in Methods :
          RpcRegister(socket, method)
    \/ \E socket \in DOMAIN connections, method \in Methods :
          RpcUnregister(socket, method)

SpecRegistry == Init /\ [][NextRegistry]_vars

\* ─── Specification of RPC calls ─────────────────────────────────────────
\* timers do fire and the clock does advance

NextCalls ==
    \/ Handshake(UserAuth) /\ nextSocket' <= MaxConnsCalls
    \/ \E socket \in DOMAIN connections :
          OnDisconnect(socket)
    \/ \E socket \in DOMAIN connections :
          RpcRegister(socket, "spawn-session")
    \/ \E socket \in DOMAIN connections :
          RpcCall(socket, "spawn-session") /\ Len(calls') <= MaxCalls
    \/ \E id \in 1..MaxCalls, response \in Responses :
          RpcCallResolved(id, response)
    \/ \E id \in 1..MaxCalls :
          RpcCallRejected(id)
    \/ Tick

SpecCalls ==
    /\ Init
    /\ [][NextCalls]_vars
    /\ WF_vars(Tick)
    /\ \A id \in 1..MaxCalls : WF_vars(RpcCallRejected(id))

\* ─── Specification of the HTTP requests ─────────────────────────────────

NextRest ==
    \/ \E request \in Requests, tag \in Tags, st \in {NULL, "a"} :
          HttpPostSessions(request, tag, "a", st) /\ Bounded(MaxSeqRest)
    \/ \E request \in Requests, sid \in SessionIds :
          HttpDeleteSession(request, sid) /\ Bounded(MaxSeqRest)
    \/ \E request \in Requests, mid \in MachineIds :
          HttpPostMachines(request, mid, "a", NULL) /\ Bounded(MaxSeqRest)
    \/ \E request \in Requests :
          HttpGet(request)
    \/ \E request \in Requests :
          HttpNotFound(request)

SpecRest == Init /\ [][NextRest]_vars

\* ─── Specification of the supervised sessions of one daemon ─────────────

\* the webhooks: a session process reports its session and its PID, or no PID
Webhooks == [sessionId : {SessionOf(1)}, pid : {NoPid}] \cup {[sessionId |-> SessionOf(pid), pid |-> pid] : pid \in Children}

\* the ids stopSession is called with: a session id or 'PID-<n>'
StopKeys == {[sessionId |-> SessionOf(pid), pidOf |-> NoPid] : pid \in Children} \cup [sessionId : {0}, pidOf : Children]

NextSupervisor ==
    \/ \E pid \in Children : SessionStartedByUser(pid)
    \/ \E pid \in Children : SessionExits(pid)
    \/ \E d \in Daemons, pid \in Children : SpawnSession(d, pid)
    \/ \E d \in Daemons, pid \in Children : SpawnTracks(d, pid)
    \/ \E d \in Daemons, pid \in Children, hasClients \in BOOLEAN : SpawnAwaits(d, pid, hasClients)
    \/ \E d \in Daemons, w \in Webhooks : OnSessionStarted(d, w.sessionId, w.pid)
    \/ \E d \in Daemons, pid \in Children : OnWebhookTimeout(d, pid)
    \/ \E d \in Daemons, key \in StopKeys : StopSession(d, key.sessionId, key.pidOf)
    \/ \E d \in Daemons : Heartbeat(d)
    \/ \E d \in Daemons : HeartbeatWrite(d)

SpecSupervisor == Init /\ [][NextSupervisor]_vars

\* ─── Specification of a daemon shutting down with its sessions ──────────

NextShutdown ==
    \/ \E pid \in Children : SessionStartedByUser(pid)
    \/ \E d \in Daemons, pid \in Children : SpawnSession(d, pid)
    \/ \E d \in Daemons, pid \in Children : SpawnTracks(d, pid)
    \/ \E d \in Daemons, pid \in Children, hasClients \in BOOLEAN : SpawnAwaits(d, pid, hasClients)
    \/ \E d \in Daemons, w \in Webhooks : OnSessionStarted(d, w.sessionId, w.pid)
    \/ \E d \in Daemons, pid \in Children : OnWebhookTimeout(d, pid)
    \/ \E d \in Daemons : Heartbeat(d)
    \/ \E d \in Daemons : HeartbeatWrite(d)
    \/ \E d \in Daemons, source \in ProcessEvents : OnProcessEvent(d, source)
    \/ \E d \in Daemons, source \in StopRequests : OnStopRequest(d, source)
    \/ \E d \in Daemons : CleanupAndShutdown(d)
    \/ \E d \in Daemons : CleanupStopServers(d)
    \/ \E d \in Daemons : CleanupDaemonState(d)
    \/ \E d \in Daemons : CleanupReleaseLock(d)
    \/ \E d \in Daemons : CleanupExit(d)
    \/ \E d \in Daemons : Watchdog(d)

SpecShutdown == Init /\ [][NextShutdown]_vars

\* ─── Specification of the daemon processes ──────────────────────────────

\* no daemon has been started
InitDaemon ==
    /\ sessions = <<>>
    /\ sessionMessages = <<>>
    /\ sessionSeqs = <<>>
    /\ machines = <<>>
    /\ artifacts = <<>>
    /\ userSeq = 0
    /\ uuidCtr = 0
    /\ handedOut = <<>>
    /\ lastUpdate = NoUpdate
    /\ batch = NoBatch
    /\ connections = <<>>
    /\ nextSocket = 0
    /\ lastEmit = NoEmit
    /\ rpcListeners = <<>>
    /\ calls = <<>>
    /\ lastRpc = NoRpc
    /\ released = {}
    /\ lastHttp = NoHttp
    /\ lockFile = NoPid
    /\ stateFile = NoState
    /\ daemons = [d \in Daemons |-> NotStarted]
    /\ diskVersion = 1
    /\ pidToTrackedSession = [d \in Daemons |-> <<>>]
    /\ pidToAwaiter = [d \in Daemons |-> {}]
    /\ children = [pid \in Children |-> NoChild]
    /\ signalled = {}
    /\ lastWebhook = NoWebhook
    /\ directories = {Home}
    /\ lastSpawn = NoSpawn

NextDaemon ==
    \/ \E d \in Daemons : Invoke(d)
    \/ Upgrade
    \/ \E d \in Daemons : VersionCheck(d)
    \/ \E d \in Daemons : AcquireLock(d)
    \/ \E d \in Daemons : TmuxMissing(d)
    \/ \E d \in Daemons : StartControlServer(d)
    \/ \E d \in Daemons : StartupThrows(d)
    \/ \E d \in Daemons : StartServing(d)
    \/ \E d \in Daemons, source \in ProcessEvents : OnProcessEvent(d, source)
    \/ \E d \in Daemons, source \in StopRequests : OnStopRequest(d, source)
    \/ \E d \in Daemons : Watchdog(d)
    \/ \E d \in Daemons : Heartbeat(d)
    \/ \E d \in Daemons : HeartbeatHangEnds(d)
    \/ \E d \in Daemons : HeartbeatWrite(d)
    \/ \E d \in Daemons : CleanupAndShutdown(d)
    \/ \E d \in Daemons : CleanupStopServers(d)
    \/ \E d \in Daemons : CleanupDaemonState(d)
    \/ \E d \in Daemons : CleanupReleaseLock(d)
    \/ \E d \in Daemons : CleanupExit(d)

SpecDaemon == InitDaemon /\ [][NextDaemon]_vars

\* ─── Requests the handlers do not expect (p2pSocketHandlers.ts, run.ts) ──
\* Socket.IO calls a handler with what the client sent: no payload argument
\* when the client sent none, no callback when the client asked for no
\* acknowledgement. No handler checks either, none catches; what a handler
\* throws reaches process.on('uncaughtException'), which requests shutdown.

\* process.on('uncaughtException' | 'unhandledRejection')
onUncaughtException(r) == requestShutdown(r, "exception")

\* 'message' (as every event with a payload) sent without payload:
\* `const { sid, message, localId } = data` throws before the Store is touched
OnMessageWithoutPayload(socket) ==
    /\ socket \in DOMAIN connections
    /\ daemons' = [daemons EXCEPT ![1] = onUncaughtException(@)]
    /\ lastUpdate' = NoUpdate
    /\ lastEmit' = NoEmit
    /\ UNCHANGED <<storeVars, handedOut, batch, connVars, rpcVars, lastHttp,
                   lockFile, stateFile, diskVersion, childVars>>

\* 'update-metadata' sent without acknowledgement: the Store is written,
\* then `callback(result)` throws, before buildUpdate and emitUpdate
OnUpdateMetadataWithoutAck(socket, sid, metadata, expectedVersion) ==
    LET r == updateSessionMetadata(sessions, sid, metadata, expectedVersion)
    IN /\ socket \in DOMAIN connections
       /\ sessions' = r.store
       /\ daemons' = [daemons EXCEPT ![1] = onUncaughtException(@)]
       /\ lastUpdate' = NoUpdate
       /\ lastEmit' = NoEmit
       /\ UNCHANGED <<sessionMessages, sessionSeqs, machines, artifacts, userSeq, uuidCtr,
                      handedOut, batch, connVars, rpcVars, lastHttp,
                      lockFile, stateFile, diskVersion, childVars>>

\* 'ping' sent without acknowledgement: `callback({})` throws
OnPingWithoutAck(socket) ==
    /\ socket \in DOMAIN connections
    /\ daemons' = [daemons EXCEPT ![1] = onUncaughtException(@)]
    /\ lastUpdate' = NoUpdate
    /\ lastEmit' = NoEmit
    /\ UNCHANGED <<storeVars, handedOut, batch, connVars, rpcVars, lastHttp,
                   lockFile, stateFile, diskVersion, childVars>>

\* ─── Specification of the clients of a serving daemon ───────────────────
\* (every step is a request of a client; nothing else acts on the daemon)

NextClients ==
    \/ \E auth \in HandshakeAuths : Handshake(auth) /\ nextSocket' <= MaxConnsClients
    \/ \E socket \in DOMAIN connections \ {1} : OnDisconnect(socket)
    \/ \E tag \in Tags, v \in Vals, st \in {NULL, "a"} :
          PostSessions(tag, v, st) /\ UNCHANGED lastHttp /\ Bounded(MaxSeqClients)
    \/ \E socket \in DOMAIN connections, sid \in SessionIds, content \in Contents :
          OnMessage(socket, sid, content) /\ Bounded(MaxSeqClients)
    \/ \E socket \in DOMAIN connections, sid \in SessionIds, v \in Vals, ev \in ExpectedVersions :
          OnUpdateMetadata(socket, sid, v, ev) /\ Bounded(MaxSeqClients)
    \/ \E socket \in DOMAIN connections : OnMessageWithoutPayload(socket)
    \/ \E socket \in DOMAIN connections, sid \in SessionIds, v \in Vals, ev \in ExpectedVersions :
          OnUpdateMetadataWithoutAck(socket, sid, v, ev)
    \/ \E socket \in DOMAIN connections : OnPingWithoutAck(socket)

SpecClients == Init /\ [][NextClients]_vars


\* ─── Specification of the self-upgrade ──────────────────────────────────
\* the serving daemon, the package upgraded under it, the daemon its
\* heartbeat launches; a process takes its next step (weak fairness of the
\* steps of startDaemon and of cleanupAndShutdown), a timer may never fire

NextUpgrade ==
    \/ Upgrade
    \/ \E d \in Daemons : Heartbeat(d)
    \/ \E d \in Daemons : HeartbeatHangEnds(d)
    \/ \E d \in Daemons : HeartbeatWrite(d)
    \/ \E d \in Daemons : VersionCheck(d)
    \/ \E d \in Daemons : AcquireLock(d)
    \/ \E d \in Daemons : TmuxMissing(d)
    \/ \E d \in Daemons : StartControlServer(d)
    \/ \E d \in Daemons : StartupThrows(d)
    \/ \E d \in Daemons : StartServing(d)
    \/ \E d \in Daemons : Watchdog(d)
    \/ \E d \in Daemons : CleanupAndShutdown(d)
    \/ \E d \in Daemons : CleanupStopServers(d)
    \/ \E d \in Daemons : CleanupDaemonState(d)
    \/ \E d \in Daemons : CleanupReleaseLock(d)
    \/ \E d \in Daemons : CleanupExit(d)
    \/ \E pid \in Children : SessionStartedByUser(pid)
    \/ \E pid \in Children : SessionExits(pid)
    \/ \E d \in Daemons, w \in Webhooks : OnSessionStarted(d, w.sessionId, w.pid)

FairUpgrade ==
    \A d \in Daemons :
        /\ WF_vars(VersionCheck(d))
        /\ WF_vars(AcquireLock(d))
        /\ WF_vars(TmuxMissing(d) \/ StartControlServer(d))
        /\ WF_vars(StartupThrows(d) \/ StartServing(d))
        /\ WF_vars(CleanupAndShutdown(d))
        /\ WF_vars(CleanupStopServers(d))
        /\ WF_vars(CleanupDaemonState(d))
        /\ WF_vars(CleanupReleaseLock(d))
        /\ WF_vars(CleanupExit(d))

SpecUpgrade == Init /\ [][NextUpgrade]_vars /\ FairUpgrade


\* ─── Specification of the versioned writes and their updates ────────────
\* (sessions are created, then the four versioned handlers are served, with
\* and without an acknowledgement callback)

NextWrites ==
    \/ \E tag \in Tags, v \in Vals :
          PostSessions(tag, v, NULL) /\ UNCHANGED lastHttp /\ Bounded(MaxSeqWrites)
    \/ \E socket \in DOMAIN connections, sid \in SessionIds, v \in Vals, ev \in ExpectedVersions :
          OnUpdateMetadata(socket, sid, v, ev) /\ Bounded(MaxSeqWrites)
    \/ \E socket \in DOMAIN connections, sid \in SessionIds, v \in {NULL, "b"},
          ev \in ExpectedVersions :
          OnUpdateState(socket, sid, v, ev) /\ Bounded(MaxSeqWrites)
    \/ \E socket \in DOMAIN connections, mid \in MachineIds, v \in Vals, ev \in ExpectedVersions :
          OnMachineUpdateMetadata(socket, mid, v, ev) /\ Bounded(MaxSeqWrites)
    \/ \E socket \in DOMAIN connections, mid \in MachineIds, v \in Vals, ev \in ExpectedVersions :
          OnMachineUpdateState(socket, mid, v, ev) /\ Bounded(MaxSeqWrites)
    \/ \E socket \in DOMAIN connections, sid \in SessionIds, v \in Vals, ev \in ExpectedVersions :
          OnUpdateMetadataWithoutAck(socket, sid, v, ev)
    \/ Submit

SpecWrites == Init /\ [][NextWrites]_vars


\* ─── Pairing: the QR payload and the app's token (p2pQRCode.ts, p2pConnect.ts) ─

\* base64 text of some bytes, and the bytes of a base64 text
encodeBase64(bytes) == <<"base64", bytes>>
decodeBase64(text) == text[2]

encodeSharedSecret(secret) == encodeBase64(secret)

\* the JSON the daemon shows as a QR code
buildP2PConnectionInfo(host, port, sharedSecret) ==
    [mode |-> "p2p", host |-> host, port |-> port, key |-> encodeSharedSecret(sharedSecret), v |-> 1]

\* the QR code of the daemon on the LAN
QRPayload == buildP2PConnectionInfo("192.168.1.5", 1, SharedSecret)

P2P_AUTH_CONTEXT == "p2p-auth"

\* HMAC-SHA512 of the data under the key: 64 bytes
hmac_sha512(key, data) == [bytes |-> 64, mac |-> <<"hmac-sha512", key, data>>]

\* HMAC-SHA256 built by hand from SHA256 digests, as createHmac('sha256',
\* key).update(data).digest() computes it: 32 bytes
hmac_sha256(key, data) == [bytes |-> 32, mac |-> <<"hmac-sha256", key, data>>]

\* bytes as lowercase hex, two characters a byte
toHex(hash) == [len |-> 2 * hash.bytes, hex |-> hash.mac]

\* the two versions of the app's deriveBearerToken
AppVersions == {"first", "second"}

deriveBearerTokenApp(version, sharedSecret) ==
    IF version = "first"
    THEN toHex(hmac_sha256(sharedSecret, P2P_AUTH_CONTEXT))
    ELSE toHex(hmac_sha512(sharedSecret, P2P_AUTH_CONTEXT))

\* connectP2P: the secret out of the QR payload, its token, the endpoint
connectP2P(version, payload) ==
    LET sharedSecret == decodeBase64(payload.key)
    IN [token |-> deriveBearerTokenApp(version, sharedSecret),
        secret |-> sharedSecret,
        endpoint |-> IF payload.port = 0 THEN <<payload.host>>
                     ELSE <<"http", payload.host, payload.port>>]

\* what the app presents after it scanned the daemon's QR code
AppAuthorization(version) ==
    [scheme |-> "Bearer", credentials |-> connectP2P(version, QRPayload).token]

\* the app opens its socket with the token
AppOpensSocket(version) ==
    Handshake([token |-> connectP2P(version, QRPayload).token, clientType |-> "user-scoped",
               sessionId |-> 0, machineId |-> NULL])

\* the app lists the sessions
AppGetsSessions(version) ==
    HttpGet([method |-> "GET", url |-> <<"v1", "sessions">>,
             authorization |-> AppAuthorization(version)])

\* the app creates a session
AppCreatesSession(version, tag, metadata) ==
    HttpPostSessions([method |-> "POST", url |-> <<"v1", "sessions">>,
                      authorization |-> AppAuthorization(version)], tag, metadata, NULL)

\* ─── Specification of the paired app ────────────────────────────────────
\* an app of either version scans the QR code and talks to the daemon

NextPairing ==
    \/ \E version \in AppVersions :
          AppOpensSocket(version) /\ nextSocket' <= MaxConnsPairing
    \/ \E version \in AppVersions :
          AppGetsSessions(version)
    \/ \E version \in AppVersions, tag \in Tags, metadata \in Vals :
          AppCreatesSession(version, tag, metadata) /\ Bounded(MaxSeqPairing)
    \/ \E socket \in DOMAIN connections :
          OnDisconnect(socket)
    \/ \E socket \in DOMAIN connections, sid \in SessionIds :
          OnMessage(socket, sid, "c") /\ Bounded(MaxSeqPairing)

SpecPairing == Init /\ [][NextPairing]_vars


\* ─── Specification of the spawn requests ────────────────────────────────
\* spawn requests with every combination of directory, approval, token,
\* agent and profile, the sessions they launch and the webhooks of these

ProfileEnvs ==
    {NoEnv,
     "ANTHROPIC_AUTH_TOKEN" :> Ref("MISSING_TOKEN"),
     "ANTHROPIC_AUTH_TOKEN" :> Ref("Z_AI_AUTH_TOKEN"),
     "TMUX_SESSION_NAME" :> Ref("MISSING_NAME")}

\* no token, a token for claude, a token for codex
Tokens == {[agent |-> "claude", token |-> NULL], [agent |-> "claude", token |-> "tok"],
           [agent |-> "codex", token |-> "tok"]}

SpawnOptions ==
    {[directory |-> dir, approvedNewDirectoryCreation |-> approved, agent |-> t.agent,
      token |-> t.token, environmentVariables |-> env] :
        dir \in {Home, Project}, approved \in {"true", "false", "undefined"},
        t \in Tokens, env \in ProfileEnvs}

\* what the host answers: the active CLI profile, whether mkdir succeeds,
\* whether tmux is there and creates the window
Hosts ==
    [localProfile : {NoEnv, "OPENAI_API_KEY" :> Ref("MISSING_KEY")}, mkdir : BOOLEAN, tmux : BOOLEAN]

NextSpawn ==
    \/ \E d \in Daemons, options \in SpawnOptions, host \in Hosts :
          SpawnReturnsEarly(d, options, host)
    \/ \E d \in Daemons, pid \in Children, options \in SpawnOptions, host \in Hosts :
          SpawnLaunches(d, pid, options, host)
    \/ \E d \in Daemons, pid \in Children : SpawnTracks(d, pid)
    \/ \E d \in Daemons, pid \in Children, hasClients \in BOOLEAN : SpawnAwaits(d, pid, hasClients)
    \/ \E d \in Daemons, pid \in Children : OnWebhookTimeout(d, pid)

SpecSpawn == Init /\ [][NextSpawn]_vars


\* ─── Properties of the Store ────────────────────────────────────────────

\* what a versioned write owes its caller: r is the reply, before/after the
\* field's [version, value] in the Store before and after the call
WriteContract(r, store, before, after, submitted, expectedVersion) ==
    IF expectedVersion = before.version
    THEN /\ r.result = "success"
         /\ after.value = submitted
         /\ after.version = before.version + 1
    ELSE /\ r.result = "version-mismatch"
         /\ r.store = store
         /\ r.version = before.version
         /\ r.value = before.value

FieldOf(version, value) == [version |-> version, value |-> value]

SessionFieldsContract ==
    \A sid \in DOMAIN sessions, v \in Vals, ev \in ExpectedVersions :
        LET rm == updateSessionMetadata(sessions, sid, v, ev)
            rs == updateSessionState(sessions, sid, v, ev)
        IN /\ WriteContract(rm, sessions,
                 FieldOf(sessions[sid].metadataVersion, sessions[sid].metadata),
                 FieldOf(rm.store[sid].metadataVersion, rm.store[sid].metadata), v, ev)
           /\ WriteContract(rs, sessions,
                 FieldOf(sessions[sid].agentStateVersion, sessions[sid].agentState),
                 FieldOf(rs.store[sid].agentStateVersion, rs.store[sid].agentState), v, ev)

MachineMetadataContract ==
    \A mid \in DOMAIN machines, v \in Vals, ev \in ExpectedVersions :
        LET rm == updateMachineMetadata(machines, mid, v, ev)
        IN WriteContract(rm, machines,
                 FieldOf(machines[mid].metadataVersion, machines[mid].metadata),
                 FieldOf(rm.store[mid].metadataVersion, rm.store[mid].metadata), v, ev)

MachineDaemonStateContract ==
    \A mid \in DOMAIN machines, v \in Vals, ev \in ExpectedVersions :
        LET rd == updateMachineDaemonState(machines, mid, v, ev)
        IN WriteContract(rd, machines,
                 FieldOf(machines[mid].daemonStateVersion, machines[mid].daemonState),
                 FieldOf(rd.store[mid].daemonStateVersion, rd.store[mid].daemonState), v, ev)

ArtifactFieldsContract ==
    \A id \in DOMAIN artifacts, v \in Vals, ev \in ExpectedVersions :
        LET rh == updateArtifactHeader(artifacts, id, v, ev)
            rb == updateArtifactBody(artifacts, id, v, ev)
        IN /\ WriteContract(rh, artifacts,
                 FieldOf(artifacts[id].headerVersion, artifacts[id].header),
                 FieldOf(rh.store[id].headerVersion, rh.store[id].header), v, ev)
           /\ WriteContract(rb, artifacts,
                 FieldOf(artifacts[id].bodyVersion, artifacts[id].body),
                 FieldOf(rb.store[id].bodyVersion, rb.store[id].body), v, ev)

\* C1: for each of the six versioned fields, a write with expectedVersion =
\* current replaces the value and raises the version by exactly 1; a write
\* with any other expectedVersion leaves the Store as it was and answers
\* version-mismatch with the current version and the current value.
VersionedWriteContract ==
    /\ SessionFieldsContract
    /\ MachineMetadataContract
    /\ MachineDaemonStateContract
    /\ ArtifactFieldsContract

\* the five fields on which the contract of C1 does hold
VersionedWriteContractButDaemonState ==
    /\ SessionFieldsContract
    /\ MachineMetadataContract
    /\ ArtifactFieldsContract

Successes(replies) == {i \in DOMAIN replies : replies[i].result = "success"}

\* C2 as stated: once all writers of a batch are answered, exactly one got
\* success and every other got version-mismatch with the current version.
ExactlyOneWriterSucceeds ==
    Len(batch.replies) = Writers =>
        /\ Cardinality(Successes(batch.replies)) = 1
        /\ \A i \in DOMAIN batch.replies \ Successes(batch.replies) :
              /\ batch.replies[i].result = "version-mismatch"
              /\ batch.replies[i].version = batch.replies[i].current

\* C2 as amended: among writers to one session or machine field with the
\* same expectedVersion at most one succeeds, and only the first one served
\* can; each of the others is answered version-mismatch with the field's
\* current version, or error when the entity is not in the Store.
AtMostOneWriterSucceeds ==
    /\ Cardinality(Successes(batch.replies)) <= 1
    /\ \A i \in DOMAIN batch.replies :
          /\ batch.replies[i].result = "success" => i = 1
          /\ batch.replies[i].result # "success" =>
                \/ /\ batch.replies[i].result = "version-mismatch"
                   /\ batch.replies[i].version = batch.replies[i].current
                   /\ batch.replies[i].version # batch.expectedVersion
                \/ /\ batch.replies[i].result = "error"
                   /\ batch.replies[i].current = 0

OneWinsOthersMismatch ==
    /\ Len(batch.replies) = Writers
    /\ batch.replies[1].result = "success"
    /\ \A i \in 2..Writers : batch.replies[i].result = "version-mismatch"

StrictlyIncreasing(q) == \A i, j \in DOMAIN q : i < j => q[i] < q[j]

\* the user seq carried by every entity now in the Store
EntitySeqs ==
    [kind : {"session"}, id : DOMAIN sessions, m : {NULL}] \cup
    [kind : {"machine"}, id : {0}, m : DOMAIN machines] \cup
    [kind : {"artifact"}, id : {0}, m : DOMAIN artifacts]

SeqOf(e) ==
    IF e.kind = "session" THEN sessions[e.id].seq
    ELSE IF e.kind = "machine" THEN machines[e.m].seq
    ELSE artifacts[e.m].seq

\* C3: the values handed out by allocateUserSeq are strictly increasing, so
\* no two entities carry the same user seq, and the update built by a handler
\* carries the value handed out last, which no entity carries.
UserSeqStrictlyMonotonic ==
    /\ StrictlyIncreasing(handedOut)
    /\ \A e1, e2 \in EntitySeqs : e1 # e2 => SeqOf(e1) # SeqOf(e2)
    /\ lastUpdate.t # "none" =>
          /\ lastUpdate.seq = handedOut[Len(handedOut)]
          /\ \A e \in EntitySeqs : SeqOf(e) # lastUpdate.seq

ThreeEntitiesAndAnUpdate ==
    /\ DOMAIN sessions # {}
    /\ DOMAIN artifacts # {}
    /\ DOMAIN machines # {}
    /\ lastUpdate.t # "none"
    /\ Len(handedOut) = MaxUserSeq

\* C4: within one session the seqs of the stored messages, in the order
\* they were appended, are strictly increasing, whatever was appended to
\* other sessions in between.
SessionSeqStrictlyMonotonic ==
    \A sid \in DOMAIN sessionMessages :
        \A i, j \in DOMAIN sessionMessages[sid] :
            i < j => sessionMessages[sid][i].seq < sessionMessages[sid][j].seq

TwoSessionsWithMessages ==
    \E s1, s2 \in DOMAIN sessionMessages :
        /\ s1 # s2
        /\ Len(sessionMessages[s1]) >= 2
        /\ Len(sessionMessages[s2]) >= 1

\* ─── Properties of the router ───────────────────────────────────────────

SessionBound(c) ==
    connections[c].connectionType = "session-scoped" /\ connections[c].sessionId # 0

MachineBound(c) ==
    connections[c].connectionType = "machine-scoped" /\ connections[c].machineId # NULL

\* C5 as stated: when an update is emitted, a session-scoped connection bound
\* to sid receives it exactly when its filter is all-interested-in-session(sid),
\* and a machine-scoped connection bound to mid exactly when its filter is
\* machine-scoped-only(mid).
ScopedReceiveExactlyTheirFilter ==
    lastEmit.event = "update" =>
        \A c \in DOMAIN connections :
            /\ SessionBound(c) =>
                  (c \in lastEmit.to <=>
                      lastEmit.filter = AllInterestedInSession(connections[c].sessionId))
            /\ MachineBound(c) =>
                  (c \in lastEmit.to <=>
                      lastEmit.filter = MachineScopedOnly(connections[c].machineId))

\* C5 as amended: a session-scoped connection bound to sid receives exactly
\* the updates emitted with filter all-interested-in-session(sid) for which
\* it is not the skipped sender, and a machine-scoped connection bound to mid
\* exactly those emitted with machine-scoped-only(mid) for which it is not the
\* skipped sender; neither receives an update with another filter or id.
ScopedReceiveTheirFilterUnlessSender ==
    lastEmit.event = "update" =>
        \A c \in DOMAIN connections :
            /\ SessionBound(c) =>
                  (c \in lastEmit.to <=>
                      /\ lastEmit.filter = AllInterestedInSession(connections[c].sessionId)
                      /\ c # lastEmit.skipSender)
            /\ MachineBound(c) =>
                  (c \in lastEmit.to <=>
                      /\ lastEmit.filter = MachineScopedOnly(connections[c].machineId)
                      /\ c # lastEmit.skipSender)

\* a session update reaches the connection bound to its session and not the
\* one bound to another session, and the sender is a third connection
SessionUpdateReachesItsSessionOnly ==
    \E c1, c2 \in DOMAIN connections :
        /\ SessionBound(c1) /\ SessionBound(c2)
        /\ lastEmit.event = "update"
        /\ lastEmit.filter = AllInterestedInSession(connections[c1].sessionId)
        /\ connections[c2].sessionId # connections[c1].sessionId
        /\ c1 \in lastEmit.to
        /\ c2 \notin lastEmit.to
        /\ lastEmit.skipSender \notin {0, c1, c2}

Filters ==
    {UserScopedOnly, AllUserAuthenticated}
        \cup {AllInterestedInSession(sid) : sid \in SessionIds}
        \cup {MachineScopedOnly(mid) : mid \in MachineIds}

SkipsSenderOnly(to, filter, S) ==
    /\ S \notin to
    /\ \A c \in DOMAIN connections \ {S} : matchesFilter(connections[c], filter) => c \in to

\* C6: an update or an ephemeral emitted with skip-sender S is not delivered
\* to S, whatever S's scope and the filter, and is delivered to every other
\* connection that matches the filter; this holds of what the handlers emit
\* and of both router calls on every filter and sender.
SenderNeverEchoed ==
    /\ lastEmit.skipSender # 0 =>
          SkipsSenderOnly(lastEmit.to, lastEmit.filter, lastEmit.skipSender)
    /\ \A S \in DOMAIN connections, filter \in Filters :
          /\ SkipsSenderOnly(emitUpdate(connections, filter, S), filter, S)
          /\ SkipsSenderOnly(emitEphemeral(connections, filter, S), filter, S)

\* the skipped sender matches the filter, and another connection receives
SenderMatchesButIsSkipped ==
    /\ lastEmit.event = "update"
    /\ lastEmit.skipSender \in DOMAIN connections
    /\ matchesFilter(connections[lastEmit.skipSender], lastEmit.filter)
    /\ lastEmit.to # {}

\* C10 as stated: every connection registered with the router presented a
\* token that verifies against the shared secret and carries the id its scope
\* requires (sessionId for session-scoped, machineId for machine-scoped).
HandshakeRequiresTokenAndScopeId ==
    \A c \in DOMAIN connections :
        /\ verifyBearerToken(connections[c].token, SharedSecret)
        /\ connections[c].connectionType = "session-scoped" => connections[c].sessionId # 0
        /\ connections[c].connectionType = "machine-scoped" => connections[c].machineId # NULL

\* the part of C10 the code does keep: no connection without a valid token
HandshakeRequiresToken ==
    \A c \in DOMAIN connections : verifyBearerToken(connections[c].token, SharedSecret)

\* ─── Properties of the RPC registry ─────────────────────────────────────

OwnersAreConnected ==
    \A m \in DOMAIN rpcListeners : rpcListeners[m] \in DOMAIN connections

\* what an rpc-register step has to do
RegisterStep ==
    lastRpc'.op = "rpc-register" =>
        IF lastRpc'.method \in DOMAIN rpcListeners
        THEN /\ lastRpc'.reply = "rpc-error"
             /\ rpcListeners' = rpcListeners
        ELSE /\ lastRpc'.reply = "rpc-registered"
             /\ rpcListeners' = MapSet(rpcListeners, lastRpc'.method, lastRpc'.socket)

\* C7: a method is bound to at most one connection: an rpc-register for a
\* bound method is answered rpc-error and leaves the binding as it is, one
\* for an unbound method binds it to the caller, and no method stays bound to
\* a connection that has disconnected, so that a later rpc-register succeeds.
RpcMethodHasOneOwner ==
    /\ []OwnersAreConnected
    /\ [][RegisterStep]_vars

\* a method that a disconnect released is bound again, to the socket that has
\* just registered it, and a second method is bound as well
ReboundAfterDisconnect ==
    \E m \in released :
        /\ m \in DOMAIN rpcListeners
        /\ lastRpc = [op |-> "rpc-register", method |-> m, socket |-> rpcListeners[m],
                      reply |-> "rpc-registered"]
        /\ DOMAIN rpcListeners # {m}

\* what a step that removes connections has to do to the bindings
DisconnectStep ==
    (DOMAIN connections' # DOMAIN connections /\ DOMAIN connections' \subseteq DOMAIN connections) =>
        /\ DOMAIN rpcListeners' =
              {m \in DOMAIN rpcListeners : rpcListeners[m] \in DOMAIN connections'}
        /\ \A m \in DOMAIN rpcListeners' : rpcListeners'[m] = rpcListeners[m]

\* C9: a disconnect removes the connection from the router and all its
\* bindings in one step: in no state is a binding owned by a socket that the
\* router no longer has, and the step leaves the bindings of the other
\* connections as they were.
DisconnectIsAtomic ==
    /\ []OwnersAreConnected
    /\ [][DisconnectStep]_vars

\* an owner has disconnected and lost its binding while another connection
\* still holds its own
OwnerGoneOtherBindingKept ==
    /\ released # {}
    /\ \E m \in DOMAIN rpcListeners : m \notin released
    /\ \E s \in 1..nextSocket : s \notin DOMAIN connections

\* ─── Properties of RPC calls ────────────────────────────────────────────

\* the one reply of an answered call is what the call's course demands
ReplyIsRight(call) ==
    LET r == call.replies[1]
    IN IF r.ok
       THEN /\ r.result \in Responses /\ r.error = NULL
            /\ call.target # 0 /\ r.ownerConnected /\ r.remaining > 0
       ELSE /\ r.result = NULL /\ r.error # NULL
            /\ call.target = 0 \/ r.remaining = 0 \/ ~r.ownerConnected

AnsweredAtMostOnce ==
    \A id \in DOMAIN calls :
        /\ Len(calls[id].replies) <= 1
        /\ calls[id].state = "answered" <=> Len(calls[id].replies) = 1
        /\ calls[id].state = "answered" => ReplyIsRight(calls[id])
        /\ (calls[id].state = "awaiting" /\ calls[id].target \notin DOMAIN connections) =>
              \A response \in Responses : ~ENABLED RpcCallResolved(id, response)

\* C8: every rpc-call gets exactly one reply and is not left pending: ok:true
\* with the owner's acknowledgement when the bound connection acknowledges
\* before the 30 s are over, ok:false with an error when no connection is
\* bound, when the 30 s run out, or when the owner has disconnected.
RpcCallAnsweredExactlyOnce ==
    /\ []AnsweredAtMostOnce
    /\ \A id \in 1..MaxCalls :
          (id \in DOMAIN calls) ~> (id \in DOMAIN calls /\ Len(calls[id].replies) = 1)

\* a call whose owner had disconnected has been answered ok:false
AnsweredAfterOwnerLeft ==
    \E id \in DOMAIN calls :
        /\ calls[id].state = "answered"
        /\ calls[id].target # 0
        /\ ~calls[id].replies[1].ok
        /\ ~calls[id].replies[1].ownerConnected

\* a call has been answered ok:true after part of the 30 s had passed
AcknowledgedInTime ==
    \E id \in DOMAIN calls :
        /\ calls[id].state = "answered"
        /\ calls[id].replies[1].ok
        /\ calls[id].replies[1].remaining < RpcTimeoutMs

\* a call has been answered ok:false because the 30 s ran out
TimedOut ==
    \E id \in DOMAIN calls :
        /\ calls[id].state = "answered"
        /\ calls[id].target # 0
        /\ ~calls[id].replies[1].ok
        /\ calls[id].replies[1].remaining = 0
        /\ calls[id].replies[1].ownerConnected


\* ─── Properties of the HTTP requests ────────────────────────────────────

\* a request to /v1/* or /v2/* whose Authorization header carries no bearer
\* token that verifies against the shared secret
Unauthorized(request) ==
    /\ startsWith(request.url, "v1") \/ startsWith(request.url, "v2")
    /\ \/ request.authorization = NoAuthorization
       \/ request.authorization.scheme # "Bearer"
       \/ ~verifyBearerToken(request.authorization.credentials, SharedSecret)

\* the request got no further than the hooks: no handler, no Store change,
\* no event
StoppedAtTheHooks ==
    /\ ~lastHttp'.handled
    /\ UNCHANGED storeVars
    /\ lastEmit' = NoEmit

\* GET /health and the static routes are served whatever the header
PublicServed ==
    (lastHttp'.request.method = "GET"
        /\ lastHttp'.request.url \in {Health, <<"index.html">>})
    => lastHttp'.status = 200

\* C11 as stated: every unauthorized request to /v1/* or /v2/* is answered
\* 401 and stops at the hooks; /health and static routes need no token
UnauthorizedAlways401 ==
    [][/\ Unauthorized(lastHttp'.request) => (lastHttp'.status = 401 /\ StoppedAtTheHooks)
       /\ PublicServed]_vars

\* C11: an unauthorized request to /v1/* or /v2/* is answered 401, or 204
\* when it is an OPTIONS preflight, which the CORS hook answers first; either
\* way no route handler runs, the Store is unchanged and no event is
\* emitted; /health and static routes need no token
UnauthorizedStopsAtTheHooks ==
    [][/\ Unauthorized(lastHttp'.request) =>
            /\ lastHttp'.status = IF lastHttp'.request.method = "OPTIONS" THEN 204 ELSE 401
            /\ StoppedAtTheHooks
       /\ PublicServed]_vars

\* a token derived from another secret was refused on a route that writes,
\* in a Store that already holds a session
WrongSecretRefused ==
    /\ lastHttp.status = 401
    /\ lastHttp.request.method = "POST"
    /\ lastHttp.request.url = <<"v1", "sessions">>
    /\ lastHttp.request.authorization.scheme = "Bearer"
    /\ lastHttp.request.authorization.credentials = deriveBearerToken(OtherSecret)
    /\ sessions # <<>>


\* ─── Properties of the daemon processes ─────────────────────────────────

\* the daemon is in its running state: started up, not asked to shut down
Running(d) == daemons[d].pc = "running" /\ daemons[d].shutdown = "none"

HoldsLock(d) == daemons[d].lock = "held" /\ lockFile = d

\* C12: at most one daemon is running per lock file; a running daemon holds
\* the exclusive lock, and the lock is acquired only when no daemon holds it
OneRunningDaemonPerLock ==
    /\ [](/\ \A d \in Daemons : Running(d) => HoldsLock(d)
          /\ Cardinality({d \in Daemons : Running(d)}) <= 1
          /\ Cardinality({d \in Daemons : Alive(d) /\ daemons[d].lock = "held"}) <= 1)
    /\ [][\A d \in Daemons :
            (daemons'[d].lock = "held" /\ daemons[d].lock # "held") =>
                (lockFile = NoPid /\ lockFile' = d)]_vars

\* a second daemon is about to try the lock that a running daemon holds
SecondDaemonAtTheLock ==
    \E a, b \in Daemons : Running(a) /\ HoldsLock(a) /\ daemons[b].pc = "acquire"

StateFileLoserNeverWrites ==
    [][\A d \in Daemons :
        /\ (daemons'[d].lostStateFile /\ ~daemons[d].lostStateFile) => daemons'[d].shutdown # "none"
        /\ (daemons'[d].lostStateFile \/ daemons[d].lostStateFile)
              => ~(stateFile' # stateFile /\ stateFile'.pid = d)]_vars

\* C20: a shutdown for a fatal condition (an exception, no lock, another PID
\* in the state file) ends with exit code 1, an orderly one that completes
\* with exit code 0
ExitCodeTellsFatalFromOrderly ==
    [][\A d \in Daemons :
        (daemons'[d].pc = "exited" /\ daemons[d].pc # "exited" /\ daemons'[d].exitCode # 137)
        => /\ daemons[d].shutdown = "exception" => daemons'[d].exitCode = 1
           /\ daemons'[d].lock = "denied" => daemons'[d].exitCode = 1
           /\ (daemons[d].pc = "released" /\ daemons[d].shutdown \in {"os-signal"} \cup StopRequests)
                 => daemons'[d].exitCode = 0]_vars

\* ─── Properties of the supervised sessions ──────────────────────────────

\* the step handles a webhook
WebhookStep == lastWebhook'.turn # lastWebhook.turn

\* when a spawn resolves with success(sessionId), the map holds the child's
\* PID with that sessionId; right after a webhook with hostPid P is handled,
\* the tracked session at P has its sessionId set
SuccessIsTrackedWithItsSession ==
    [][/\ \A pid \in Children :
            (children'[pid].result = "success" /\ children[pid].result # "success") =>
                /\ pid \in DOMAIN pidToTrackedSession'[children[pid].by]
                /\ children'[pid].sessionId = lastWebhook'.sessionId
                /\ pidToTrackedSession'[children[pid].by][pid].remcliSessionId = lastWebhook'.sessionId
       /\ (WebhookStep /\ lastWebhook'.pid # NoPid) =>
            /\ lastWebhook'.pid \in DOMAIN pidToTrackedSession'[lastWebhook'.daemon]
            /\ pidToTrackedSession'[lastWebhook'.daemon][lastWebhook'.pid].remcliSessionId # 0]_vars

\* C14: when a spawn resolves with success(sessionId), the map holds the
\* child's PID with that sessionId; and once a webhook with hostPid P has
\* been handled, the tracked session at P, while there is one, has its
\* sessionId set
TrackedAfterWebhookHasSession ==
    /\ SuccessIsTrackedWithItsSession
    /\ [](\A pid \in Children :
            (children[pid].reportedInTime /\ pid \in DOMAIN pidToTrackedSession[children[pid].by])
                => pidToTrackedSession[children[pid].by][pid].remcliSessionId # 0)

\* C15: a daemon-spawned session that reports itself after its launch and
\* before the deadline makes its spawn resolve with success, and it is
\* tracked as started by the daemon with the session it reported
ReportedInTimeSucceeds ==
    \A pid \in Children :
        (children[pid].pc = "done" /\ children[pid].reportedInTime) =>
            children[pid].result = "success"

\* C16: when the deadline passes without a webhook the spawn resolves with
\* the timeout error, the awaiter of the PID is removed and so is the
\* tracked session at the PID
TimeoutForgetsTheChild ==
    [][\A pid \in Children :
        (children'[pid].result = "timeout" /\ children[pid].result # "timeout") =>
            /\ pid \notin pidToAwaiter'[children[pid].by]
            /\ pid \notin DOMAIN pidToTrackedSession'[children[pid].by]]_vars

\* C17: handling a webhook changes the startedBy of no entry that is in the
\* map, and removes none
WebhookKeepsStartedBy ==
    [][WebhookStep =>
        \A pid \in DOMAIN pidToTrackedSession[lastWebhook'.daemon] :
            /\ pid \in DOMAIN pidToTrackedSession'[lastWebhook'.daemon]
            /\ pidToTrackedSession'[lastWebhook'.daemon][pid].startedBy
                  = pidToTrackedSession[lastWebhook'.daemon][pid].startedBy]_vars

\* a daemon-spawned session reported itself before its awaiter was installed
\* and was enriched
DaemonEntryEnriched ==
    \E pid \in Children :
        /\ lastWebhook.pid = pid
        /\ children[pid].pc = "recorded"
        /\ pidToTrackedSession[lastWebhook.daemon][pid] = [startedBy |-> "daemon", remcliSessionId |-> lastWebhook.sessionId]

\* C19: the graceful shutdown releases the lock after the heartbeat was
\* cleared, every tracked session was sent SIGTERM, the servers were stopped
\* and the state file was deleted: the lock is never released while the
\* state file exists or a tracked session has not been sent SIGTERM
LockReleasedLast ==
    [][\A d \in Daemons :
        (daemons[d].pc = "deleted" /\ daemons'[d].lock = "released") =>
            /\ ~daemons[d].interval
            /\ ~ControlServerUp(d)
            /\ stateFile = NoState
            /\ DOMAIN pidToTrackedSession[d] \subseteq signalled]_vars


\* ─── Properties of the daemon under its clients ─────────────────────────

\* C21: no request of a client drives the daemon into shutdown: whatever
\* the clients send, the daemon is running and no shutdown is requested
ClientRequestsNeverRequestShutdown == Running(1)


\* ─── Properties of the self-upgrade ─────────────────────────────────────

\* a heartbeat has found the package on disk different from its own version
FoundUpgrade == \E d \in Daemons : daemons[d].heartbeat = "hanging"

\* daemon n, of the version on disk, has taken over from the daemons of the
\* old version: they are stopped, n holds the lock, is the only running
\* daemon and the state file names it
TookOver(n) ==
    /\ daemons[n].version = diskVersion
    /\ Running(n)
    /\ HoldsLock(n)
    /\ \A m \in Daemons \ {n} : ~Running(m) /\ (Alive(m) => daemons[m].shutdown # "none")
    /\ stateFile = writeDaemonState(n, diskVersion)

\* the daemon the heartbeat launched has exited without serving: it was
\* denied the lock, or its startup failed with exit code 1
GaveUp(n) ==
    /\ daemons[n].pc = "exited"
    /\ daemons[n].lock = "denied" \/ daemons[n].exitCode = 1

TagsUnique(ss) == \A a, b \in DOMAIN ss : a # b => ss[a].tag # ss[b].tag

\* C23: no two sessions share a tag, and createSession with a tag that a
\* session has creates no session: it returns that session, its id kept,
\* its metadata replaced, its metadataVersion raised by one, active set, and
\* leaves every other session and the user counter as they were
SessionTagsUnique ==
    /\ TagsUnique(sessions)
    /\ \A tag \in Tags, metadata \in Vals :
          LET c == createSession(sessions, userSeq, uuidCtr + 1, tag, metadata)
              id == getSessionByTag(sessions, tag)
          IN /\ TagsUnique(c.sessions)
             /\ id # 0 =>
                   /\ c.id = id
                   /\ DOMAIN c.sessions = DOMAIN sessions
                   /\ c.userSeq = userSeq
                   /\ c.sessions[id].tag = tag
                   /\ c.sessions[id].seq = sessions[id].seq
                   /\ c.sessions[id].metadata = metadata
                   /\ c.sessions[id].metadataVersion = sessions[id].metadataVersion + 1
                   /\ c.sessions[id].active
                   /\ c.sessions[id].agentState = sessions[id].agentState
                   /\ c.sessions[id].agentStateVersion = sessions[id].agentStateVersion
                   /\ \A other \in DOMAIN sessions \ {id} : c.sessions[other] = sessions[other]

\* a session under one tag has been written to and has ended, so that
\* creating it again is seen in its metadata, its version and active; the
\* other tag is free
TaggedSessionWrittenAndEnded ==
    /\ getSessionByTag(sessions, "t2") = 0
    /\ \E a \in DOMAIN sessions :
          /\ sessions[a].tag = "t1"
          /\ sessions[a].metadataVersion = 2 /\ sessions[a].metadata = "b" /\ ~sessions[a].active


\* ─── Properties of message appends ──────────────────────────────────────

MessagesOf(msgs, sid) == IF sid \in DOMAIN msgs THEN msgs[sid] ELSE <<>>

\* this step appended one message to session sid
AppendedTo(sid) ==
    /\ Len(MessagesOf(sessionMessages', sid)) = Len(MessagesOf(sessionMessages, sid)) + 1
    /\ SubSeq(sessionMessages'[sid], 1, Len(MessagesOf(sessionMessages, sid)))
          = MessagesOf(sessionMessages, sid)

\* C24: every stored message belongs to a session that was present when it
\* was stored; an append to an absent session returns null and stores
\* nothing, takes no seq of the session and none of the user, and no
\* new-message update is built for it
MessagesOnlyInPresentSessions ==
    /\ [](/\ DOMAIN sessionMessages \subseteq DOMAIN sessions
          /\ DOMAIN sessionSeqs \subseteq DOMAIN sessions
          /\ \A sid \in SessionIds \ DOMAIN sessions, content \in Contents :
                LET m == addMessage(sessions, sessionMessages, sessionSeqs, sid, content)
                IN /\ ~m.ok
                   /\ m.sessions = sessions
                   /\ m.sessionMessages = sessionMessages
                   /\ m.sessionSeqs = sessionSeqs)
    /\ [][/\ \A sid \in SessionIds :
                Len(MessagesOf(sessionMessages', sid)) > Len(MessagesOf(sessionMessages, sid))
                   => sid \in DOMAIN sessions /\ AppendedTo(sid)
          /\ (/\ DOMAIN sessions' = DOMAIN sessions
              /\ \/ userSeq' # userSeq
                 \/ sessionSeqs' # sessionSeqs
                 \/ sessionMessages' # sessionMessages
                 \/ lastUpdate'.t = "new-message")
             => \E sid \in DOMAIN sessions :
                   /\ AppendedTo(sid)
                   /\ \A other \in SessionIds \ {sid} :
                         MessagesOf(sessionMessages', other) = MessagesOf(sessionMessages, other)
                   /\ lastUpdate' = buildUpdate(userSeq, "new-message", AllInterestedInSession(sid))
                   /\ userSeq' = userSeq + 1]_vars

\* a message is stored in one session while another id has no session: the
\* append to the absent one has left the Store and the counters alone
StoredBesideAbsentSession ==
    /\ \E sid \in DOMAIN sessions : Len(MessagesOf(sessionMessages, sid)) >= 1
    /\ \E sid \in SessionIds : sid \notin DOMAIN sessions /\ sid <= uuidCtr
    /\ lastUpdate = NoUpdate


\* ─── Properties of the updates of versioned writes ──────────────────────

\* what a versioned-write handler owes the subscribers in its step: r is
\* the Store's reply, before/after the field's version in the Store, now
\* its value after the step
OneUpdatePerSuccess(r, t, filter, field, before, after, now, submitted) ==
    IF r.result = "success"
    THEN /\ after = before + 1
         /\ now = submitted
         /\ lastUpdate' = [t |-> t, seq |-> userSeq + 1, filter |-> filter,
                           field |-> field, version |-> after, value |-> now]
         /\ handedOut' = Append(handedOut, userSeq + 1)
         /\ lastEmit'.event = "update" /\ lastEmit'.filter = filter
    ELSE /\ lastUpdate' = NoUpdate
         /\ lastEmit' = NoEmit
         /\ handedOut' = handedOut
         /\ userSeq' = userSeq

SessionWritesUpdateOnce ==
    \A socket \in DOMAIN connections, sid \in SessionIds, v \in Vals \cup {NULL}, ev \in ExpectedVersions :
        /\ OnUpdateMetadata(socket, sid, v, ev) =>
              LET r == updateSessionMetadata(sessions, sid, v, ev)
              IN OneUpdatePerSuccess(r, "update-session", AllInterestedInSession(sid),
                    "session.metadata",
                    IF r.result = "success" THEN sessions[sid].metadataVersion ELSE 0,
                    IF r.result = "success" THEN sessions'[sid].metadataVersion ELSE 0,
                    IF r.result = "success" THEN sessions'[sid].metadata ELSE NULL, v)
        /\ OnUpdateState(socket, sid, v, ev) =>
              LET r == updateSessionState(sessions, sid, v, ev)
              IN OneUpdatePerSuccess(r, "update-session", AllInterestedInSession(sid),
                    "session.agentState",
                    IF r.result = "success" THEN sessions[sid].agentStateVersion ELSE 0,
                    IF r.result = "success" THEN sessions'[sid].agentStateVersion ELSE 0,
                    IF r.result = "success" THEN sessions'[sid].agentState ELSE NULL, v)

MachineWritesUpdateOnce ==
    \A socket \in DOMAIN connections, mid \in MachineIds, v \in Vals, ev \in ExpectedVersions :
        /\ OnMachineUpdateMetadata(socket, mid, v, ev) =>
              LET r == updateMachineMetadata(machines, mid, v, ev)
              IN OneUpdatePerSuccess(r, "update-machine", MachineScopedOnly(mid),
                    "machine.metadata",
                    IF r.result = "success" THEN machines[mid].metadataVersion ELSE 0,
                    IF r.result = "success" THEN machines'[mid].metadataVersion ELSE 0,
                    IF r.result = "success" THEN machines'[mid].metadata ELSE NULL, v)
        /\ OnMachineUpdateState(socket, mid, v, ev) =>
              LET r == updateMachineDaemonState(machines, mid, v, ev)
              IN OneUpdatePerSuccess(r, "update-machine", MachineScopedOnly(mid),
                    "machine.daemonState",
                    IF r.result = "success" THEN machines[mid].daemonStateVersion ELSE 0,
                    IF r.result = "success" THEN machines'[mid].daemonStateVersion ELSE 0,
                    IF r.result = "success" THEN machines'[mid].daemonState ELSE NULL, v)

\* A and B sent the same expectedVersion, A was served first and B next
\* with no other write to the field in between
ConflictOfTwo ==
    /\ Len(batch.replies) = 2
    /\ batch.replies[1].result = "success"
    /\ batch.replies[2].result = "version-mismatch"
    /\ batch.replies[2].current = batch.expectedVersion + 1

\* the acknowledged part: in the step of a versioned write sent with its
\* callback, one update with the new version and value is built and emitted
\* on success and none on version-mismatch or error
AcknowledgedWritesUpdateOnce == [][SessionWritesUpdateOnce /\ MachineWritesUpdateOnce]_vars

\* this step built the one update of a write to the field
Announced(t, filter, field, version, value) ==
    /\ lastUpdate' = [t |-> t, seq |-> userSeq + 1, filter |-> filter,
                      field |-> field, version |-> version, value |-> value]
    /\ handedOut' = Append(handedOut, userSeq + 1)
    /\ lastEmit'.event = "update" /\ lastEmit'.filter = filter

SessionWriteAnnounced(sid) ==
    /\ sessions'[sid].metadataVersion # sessions[sid].metadataVersion =>
          Announced("update-session", AllInterestedInSession(sid), "session.metadata",
                    sessions[sid].metadataVersion + 1, sessions'[sid].metadata)
    /\ sessions'[sid].agentStateVersion # sessions[sid].agentStateVersion =>
          Announced("update-session", AllInterestedInSession(sid), "session.agentState",
                    sessions[sid].agentStateVersion + 1, sessions'[sid].agentState)

MachineWriteAnnounced(mid) ==
    /\ machines'[mid].metadataVersion # machines[mid].metadataVersion =>
          Announced("update-machine", MachineScopedOnly(mid), "machine.metadata",
                    machines[mid].metadataVersion + 1, machines'[mid].metadata)
    /\ machines'[mid].daemonStateVersion # machines[mid].daemonStateVersion =>
          Announced("update-machine", MachineScopedOnly(mid), "machine.daemonState",
                    machines[mid].daemonStateVersion + 1, machines'[mid].daemonState)

\* C25: an update-session / update-machine is built and emitted exactly once
\* in the step of a versioned write that succeeded, with the new version and
\* value of the field, and in no step in which no version rose (the write
\* was answered version-mismatch or error); when A and B send the same
\* expectedVersion and A is served first, B's version-mismatch carries A's
\* version and value
UpdateOncePerSuccessfulWrite ==
    /\ [](ConflictOfTwo =>
            /\ batch.replies[1].version = batch.expectedVersion + 1
            /\ batch.replies[2].version = batch.expectedVersion + 1
            /\ batch.replies[2].value = batch.replies[1].value)
    /\ [][/\ \A sid \in DOMAIN sessions \cap DOMAIN sessions' : SessionWriteAnnounced(sid)
          /\ \A mid \in DOMAIN machines \cap DOMAIN machines' : MachineWriteAnnounced(mid)
          /\ (handedOut' # handedOut /\ lastUpdate'.t \in {"update-session", "update-machine"}) =>
                \/ \E sid \in DOMAIN sessions \cap DOMAIN sessions' :
                      \/ sessions'[sid].metadataVersion # sessions[sid].metadataVersion
                      \/ sessions'[sid].agentStateVersion # sessions[sid].agentStateVersion
                \/ \E mid \in DOMAIN machines \cap DOMAIN machines' :
                      \/ machines'[mid].metadataVersion # machines[mid].metadataVersion
                      \/ machines'[mid].daemonStateVersion # machines[mid].daemonStateVersion]_vars

\* the conflict of the claim with every write acknowledged
ConflictCarriesTheWinner ==
    ConflictOfTwo =>
        /\ batch.replies[1].version = batch.expectedVersion + 1
        /\ batch.replies[2].version = batch.expectedVersion + 1
        /\ batch.replies[2].value = batch.replies[1].value

\* B of the metadata conflict has just been answered: no update was built
MetadataConflictAnswered ==
    /\ ConflictOfTwo
    /\ batch.field = "session.metadata"
    /\ batch.replies[2].value = "b"
    /\ lastUpdate = NoUpdate
    /\ lastEmit = NoEmit


\* ─── Properties of the order of delivery ────────────────────────────────

\* this step emitted an update through the router
EmitsUpdate == lastEmit'.event = "update" /\ handedOut' # handedOut

\* C26: updates reach a connection in the order they are emitted, and the
\* seqs a connection receives are strictly increasing: a step emits at most
\* one update, to every recipient at once, and its seq is the one just
\* taken from the user counter, above every seq handed out before
DeliveredInSeqOrder ==
    [][/\ EmitsUpdate =>
             /\ lastUpdate'.t # "none"
             /\ lastUpdate'.seq = userSeq'
             /\ lastUpdate'.seq = handedOut'[Len(handedOut')]
             /\ \A i \in DOMAIN handedOut : handedOut[i] < lastUpdate'.seq
             /\ lastEmit'.filter = lastUpdate'.filter
             /\ lastEmit'.to \subseteq DOMAIN connections
       /\ lastEmit'.event # "update" => lastEmit'.to = {} \/ lastEmit'.event = "ephemeral"
       /\ userSeq' >= userSeq]_vars

\* a second update has reached a user-scoped connection
SecondUpdateDelivered ==
    /\ lastEmit.event = "update"
    /\ lastUpdate.t = "new-message"
    /\ lastUpdate.seq = 4
    /\ \E c \in lastEmit.to : connections[c].connectionType = "user-scoped"


\* ─── Properties of the first session ────────────────────────────────────

\* nothing but the daemon's start-up has taken a seq, no session was created
FreshlyStarted == sessions = <<>> /\ uuidCtr = 0 /\ Len(handedOut) = 1

\* this step is the first POST /v1/sessions that creates a session
FirstSessionCreated == FreshlyStarted /\ DOMAIN sessions' # {}

UserScoped == {c \in DOMAIN connections : connections[c].connectionType = "user-scoped"}

\* C27 (as stated): on a freshly started daemon the first POST /v1/sessions
\* returns a session with seq 1 and metadataVersion 1, and the user-scoped
\* sockets receive a new-session update whose seq is 1
FirstSessionHasSeqOne ==
    [][FirstSessionCreated =>
          \A sid \in DOMAIN sessions' :
              /\ sessions'[sid].seq = 1
              /\ sessions'[sid].metadataVersion = 1
              /\ lastUpdate'.t = "new-session"
              /\ lastUpdate'.seq = 1
              /\ lastEmit'.to = UserScoped]_vars

\* C27 (amended): ... returns a session with seq 2 and metadataVersion 1,
\* seq 1 being the daemon's own machine, and the user-scoped sockets receive
\* a new-session update whose seq is 3
FirstSessionFollowsTheMachine ==
    [][FirstSessionCreated =>
          /\ \A mid \in DOMAIN machines : machines[mid].seq = 1
          /\ Cardinality(DOMAIN sessions') = 1
          /\ \A sid \in DOMAIN sessions' :
                /\ sessions'[sid].seq = 2
                /\ sessions'[sid].metadataVersion = 1
                /\ lastUpdate'.t = "new-session"
                /\ lastUpdate'.seq = 3
                /\ lastEmit'.event = "update"
                /\ lastEmit'.to = UserScoped]_vars

\* the first session of a freshly started daemon has been announced to a
\* user-scoped socket
FirstSessionAnnounced ==
    /\ Cardinality(DOMAIN sessions) = 1
    /\ Len(handedOut) = 3
    /\ lastUpdate.t = "new-session"
    /\ lastEmit.event = "update"
    /\ lastEmit.to # {}


\* ─── Properties of the snapshot ─────────────────────────────────────────

\* the Store as it is now
TheStore == Store(userSeq, sessions, sessionSeqs, sessionMessages, machines, artifacts)

PresentedToken(token) ==
    /\ startsWith(lastHttp.request.url, "v1") \/ startsWith(lastHttp.request.url, "v2")
    /\ lastHttp.request.method # "OPTIONS"
    /\ lastHttp.request.authorization = [scheme |-> "Bearer", credentials |-> token]

\* C29: for all shared secrets k and k' with k' # k, verifying the token
\* derived from k against k returns true and verifying the token derived
\* from k' against k returns false; so the daemon, which holds SharedSecret,
\* answers 401 to the token of another secret and never to its own
TokenVerifiesOnlyAgainstItsSecret ==
    /\ \A k \in Secrets, k2 \in Secrets :
          verifyBearerToken(deriveBearerToken(k2), k) = (k2 = k)
    /\ \A k2 \in Secrets :
          PresentedToken(deriveBearerToken(k2))
              => ((lastHttp.status = 401) = (k2 # SharedSecret))

\* the token of another secret was refused on DELETE, in a Store holding a
\* session that a request with the daemon's own token had created
OtherTokenRefusedOwnAccepted ==
    /\ PresentedToken(deriveBearerToken(OtherSecret))
    /\ lastHttp.request.method = "DELETE"
    /\ lastHttp.status = 401
    /\ sessions # <<>>


\* C30: for every shared secret, the bearer token the app derives from the
\* key in the QR payload is the token the daemon derives from that secret,
\* so an app that holds the right secret is accepted by the daemon's token
\* verification: its requests are never answered 401
AppWithTheSecretAccepted ==
    \A version \in AppVersions :
        PresentedToken(connectP2P(version, QRPayload).token)
            => /\ connectP2P(version, QRPayload).token = deriveBearerToken(SharedSecret)
               /\ lastHttp.status # 401

\* the first version of the app, HMAC-SHA256 by hand, is accepted
FirstVersionAccepted ==
    /\ \A k \in Secrets :
          connectP2P("first", buildP2PConnectionInfo("192.168.1.5", 1, k)).token = deriveBearerToken(k)
    /\ PresentedToken(connectP2P("first", QRPayload).token) => lastHttp.status = 200

\* the first version has created a session and opened its socket
FirstVersionPaired ==
    /\ PresentedToken(connectP2P("first", QRPayload).token)
    /\ lastHttp.handled
    /\ sessions # <<>>
    /\ connections # <<>>



\* ─── Properties of the expired webhook deadline ─────────────────────────

\* the webhook deadline of the daemon-spawned child has expired and the
\* child is still tracked by its daemon
Expired(pid) ==
    /\ children[pid].result = "timeout"
    /\ pid \in DOMAIN pidToTrackedSession[children[pid].by]
    /\ pidToTrackedSession[children[pid].by][pid].startedBy = "daemon"

\* C31: a daemon-spawned tracked child whose webhook deadline has expired
\* never becomes session-bound: a webhook that arrives for its PID after the
\* deadline does not set a sessionId on that tracked child
ExpiredNeverSessionBound ==
    [][\A pid \in Children :
        (Expired(pid) /\ pid \in DOMAIN pidToTrackedSession'[children[pid].by]) =>
            pidToTrackedSession'[children[pid].by][pid].remcliSessionId
                = pidToTrackedSession[children[pid].by][pid].remcliSessionId]_vars

\* the spawn that ended with the timeout error stays ended with it, whatever
\* webhook arrives later
ExpiredSpawnStaysFailed ==
    [][\A pid \in Children :
        children[pid].result = "timeout" =>
            /\ children'[pid].result = "timeout"
            /\ pid \notin pidToAwaiter'[children[pid].by]]_vars



\* ─── Properties of POST /v1/sessions for an existing tag ────────────────

\* the step is an authorized POST /v1/sessions of the app for a tag that a
\* session bears
PostsExistingTag(tag, metadata) ==
    /\ AppCreatesSession("first", tag, metadata)
    /\ getSessionByTag(sessions, tag) # 0

\* C32 as stated: a POST /v1/sessions whose tag already exists never creates
\* a second session with that tag and returns the existing session (same id)
\* with its metadata refreshed to the posted metadata and its
\* metadataVersion bumped by 1
ExistingTagRefreshed ==
    [][\A tag \in Tags, metadata \in Vals :
        PostsExistingTag(tag, metadata) =>
            /\ TagsUnique(sessions')
            /\ PostSessionsReturns(tag).id = getSessionByTag(sessions, tag)
            /\ PostSessionsReturns(tag).metadata = metadata
            /\ PostSessionsReturns(tag).metadataVersion
                  = sessions[getSessionByTag(sessions, tag)].metadataVersion + 1]_vars

\* C32: a POST /v1/sessions whose tag already exists never creates a second
\* session with that tag and returns the existing session (same id) as it
\* is: its metadata and metadataVersion are those it had before the request,
\* the Store is unchanged and no update is emitted
ExistingTagReturnedAsItIs ==
    [][\A tag \in Tags, metadata \in Vals :
        PostsExistingTag(tag, metadata) =>
            /\ TagsUnique(sessions')
            /\ DOMAIN sessions' = DOMAIN sessions
            /\ PostSessionsReturns(tag).id = getSessionByTag(sessions, tag)
            /\ PostSessionsReturns(tag).metadata
                  = sessions[getSessionByTag(sessions, tag)].metadata
            /\ PostSessionsReturns(tag).metadataVersion
                  = sessions[getSessionByTag(sessions, tag)].metadataVersion
            /\ UNCHANGED storeVars
            /\ lastUpdate' = NoUpdate
            /\ lastEmit' = NoEmit]_vars

\* an authorized POST /v1/sessions was handled without building an update,
\* which is the branch for an existing tag, with two sessions in the Store
ExistingTagPosted ==
    /\ lastHttp.handled
    /\ lastHttp.request.method = "POST"
    /\ lastHttp.request.url = <<"v1", "sessions">>
    /\ lastUpdate = NoUpdate
    /\ Cardinality(DOMAIN sessions) = 2



\* ─── Properties of the spawn requests ───────────────────────────────────

\* the step is a spawn request whose outcome differs from the last one's
SpawnStep == lastSpawn' # lastSpawn

\* no session process is launched, no tracked child is inserted and no
\* awaiter is installed
NothingSpawned == UNCHANGED <<children, pidToTrackedSession, pidToAwaiter>>

AbsentDirectory == lastSpawn.type # "none" /\ lastSpawn.absent

\* the request was answered with a request to approve the creation of its
\* directory
ApprovalRequested ==
    /\ lastSpawn.type = "requestToApproveDirectoryCreation"
    /\ lastSpawn.directory \notin directories

\* C34: a spawn whose working directory does not exist creates the
\* directory and proceeds only when approvedNewDirectoryCreation was given
\* as approved; in every other case it returns needsDirectoryApproval for
\* that path without creating the directory, launching a child, or inserting
\* a tracked child
DirectoryCreatedOnlyWhenApproved ==
    /\ []((AbsentDirectory /\ lastSpawn.approvedNewDirectoryCreation # "true") => ApprovalRequested)
    /\ [][(SpawnStep /\ lastSpawn'.absent /\ lastSpawn'.approvedNewDirectoryCreation # "true") =>
            /\ directories' = directories
            /\ NothingSpawned]_vars

\* with the flag left out counted as approval, the rest holds: a refusal
\* creates nothing and spawns nothing, and a directory is created only for
\* a request that was not refused
DirectoryCreatedUnlessRefused ==
    /\ []((AbsentDirectory /\ lastSpawn.approvedNewDirectoryCreation = "false") => ApprovalRequested)
    /\ [][(SpawnStep /\ lastSpawn'.absent) =>
            IF lastSpawn'.approvedNewDirectoryCreation = "false"
            THEN directories' = directories /\ NothingSpawned
            ELSE lastSpawn'.type # "requestToApproveDirectoryCreation"]_vars

\* a request without the flag found its directory absent, created it and
\* launched a session
CreatedWithoutTheFlag ==
    /\ AbsentDirectory
    /\ lastSpawn.approvedNewDirectoryCreation = "undefined"
    /\ lastSpawn.type = "launched"
    /\ lastSpawn.directory \in directories



\* ─── Properties of a failed load ────────────────────────────────────────

\* C35: loading a snapshot leaves the Store exactly in the fresh state (no
\* sessions, messages, machines or artifacts, userSeq 0) whenever the
\* snapshot file is missing, has an unknown schema version, or cannot be
\* completely parsed and applied; a failed load never leaves the Store
\* partly populated
FailedLoadLeavesStoreFresh ==
    \A file \in {NoFile, Garbled, OtherVersion(TheStore)} \cup Incomplete(TheStore) :
        loadFromDisk(file, FreshStore) = FreshStore

\* the three cases the load looks for leave the Store fresh: no file, a
\* text that is no JSON, an unknown schema version
RejectedFileLeavesStoreFresh ==
    \A file \in {NoFile, Garbled, OtherVersion(TheStore)} :
        loadFromDisk(file, FreshStore) = FreshStore

\* a version-1 snapshot without its machines and artifacts leaves the
\* sessions and messages of the running Store in the fresh one
PartlyLoaded ==
    /\ sessions # <<>>
    /\ loadFromDisk(Lacking(TheStore, {"artifacts", "machines"}), FreshStore).sessions = sessions
    /\ loadFromDisk(Lacking(TheStore, {"artifacts", "machines"}), FreshStore).machines = <<>>



\* ─── 'artifact-update' with both parts ──────────────────────────────────

BothParts == Parts \ {NoPart}

HeaderApplied(artifactId, header) ==
    /\ artifacts'[artifactId].header = header.data
    /\ artifacts'[artifactId].headerVersion = artifacts[artifactId].headerVersion + 1

BodyApplied(artifactId, body) ==
    /\ artifacts'[artifactId].body = body.data
    /\ artifacts'[artifactId].bodyVersion = artifacts[artifactId].bodyVersion + 1

\* the reply is {result: 'success'} exactly when the handler went on to build the update
RepliedSuccess == lastUpdate'.t = "update-artifact"

\* C36: an artifact-update carrying a header and a body either applies both and
\* answers success, or answers version-mismatch and leaves the artifact's header,
\* body and both versions as they were
ArtifactUpdateAllOrNothing ==
    [][\A socket \in DOMAIN connections, id \in DOMAIN artifacts, h \in BothParts, b \in BothParts :
          OnArtifactUpdate(socket, id, h, b) =>
             \/ RepliedSuccess /\ HeaderApplied(id, h) /\ BodyApplied(id, b)
             \/ ~RepliedSuccess /\ artifacts'[id] = artifacts[id]]_vars

\* what does hold: a refused header leaves the artifact as it was, and success
\* is answered only when both parts were applied
ArtifactUpdateRefusedHeaderOrBoth ==
    [][\A socket \in DOMAIN connections, id \in DOMAIN artifacts, h \in BothParts, b \in BothParts :
          OnArtifactUpdate(socket, id, h, b) =>
             /\ RepliedSuccess => HeaderApplied(id, h) /\ BodyApplied(id, b)
             /\ h.expectedVersion # artifacts[id].headerVersion =>
                   ~RepliedSuccess /\ artifacts'[id] = artifacts[id]]_vars


\* ─── Versions of an entity that stays present ───────────────────────────

\* a version field and its value across one step of an entity that is kept
Kept(version, nextVersion, value, nextValue) ==
    /\ nextVersion >= version
    /\ nextValue # value => nextVersion > version

SessionVersionsKept ==
    \A id \in DOMAIN sessions \cap DOMAIN sessions' :
       /\ Kept(sessions[id].metadataVersion, sessions'[id].metadataVersion,
               sessions[id].metadata, sessions'[id].metadata)
       /\ Kept(sessions[id].agentStateVersion, sessions'[id].agentStateVersion,
               sessions[id].agentState, sessions'[id].agentState)

MachineVersionsKept ==
    \A id \in DOMAIN machines \cap DOMAIN machines' :
       /\ Kept(machines[id].metadataVersion, machines'[id].metadataVersion,
               machines[id].metadata, machines'[id].metadata)
       /\ Kept(machines[id].daemonStateVersion, machines'[id].daemonStateVersion,
               machines[id].daemonState, machines'[id].daemonState)

ArtifactVersionsKept ==
    \A id \in DOMAIN artifacts \cap DOMAIN artifacts' :
       /\ Kept(artifacts[id].headerVersion, artifacts'[id].headerVersion,
               artifacts[id].header, artifacts'[id].header)
       /\ Kept(artifacts[id].bodyVersion, artifacts'[id].bodyVersion,
               artifacts[id].body, artifacts'[id].body)

\* C37: while a session, machine or artifact id stays in the Store, no version
\* field of it decreases and no versioned value changes without its version
\* increasing; artifact-create for an existing id in particular resets nothing
VersionsNeverGoBack ==
    [][SessionVersionsKept /\ MachineVersionsKept /\ ArtifactVersionsKept]_vars

\* what does hold: sessions and machines, and artifacts on every step that is no
\* artifact-create of an id already stored
VersionsNeverGoBackButRecreate ==
    [][/\ SessionVersionsKept
       /\ MachineVersionsKept
       /\ ArtifactVersionsKept \/ lastUpdate'.t = "new-artifact"]_vars


\* ─── The lock of a daemon that exits ────────────────────────────────────

Exited(d) == daemons[d].pc = "exited"

\* C38: a daemon process that acquired the lock has released it by the time
\* it has exited, whichever way it exits
LockReleasedBeforeExit ==
    \A d \in Daemons : Exited(d) => daemons[d].lock # "held"

\* what does hold: the exit at the end of cleanupAndShutdown and the exit for
\* a missing tmux come after releaseDaemonLock
LockReleasedBeforeOrderlyExit ==
    [][\A d \in Daemons :
          (CleanupExit(d) \/ TmuxMissing(d)) => daemons'[d].lock = "released" /\ lockFile' # d]_vars

\* the four ways out that leave the lock file behind
ExitedHoldingLock(code) ==
    \E d \in Daemons : Exited(d) /\ daemons[d].lock = "held" /\ lockFile = d /\ daemons[d].exitCode = code

HangEndedHoldingLock == ExitedHoldingLock(0)

ForcedOutHoldingLock == ExitedHoldingLock(1)


\* ─── The state file after cleanupDaemonState ────────────────────────────

\* cleanupAndShutdown of d has passed `await cleanupDaemonState()`
DeletedItsStateFile(d) == daemons[d].pc \in {"deleted", "released"}

\* the step writes a state file naming d
WritesStateFile(d) == stateFile' # stateFile /\ stateFile'.pid = d

\* d went through cleanupAndShutdown to its process.exit(0)
ExitedGracefully(d) == Exited(d) /\ daemons[d].lock = "released" /\ daemons[d].exitCode = 0

\* C39: a daemon whose graceful shutdown has deleted the state file never
\* writes it again, so after its graceful exit no state file names it
StateFileStaysDeleted ==
    [][\A d \in Daemons :
          /\ DeletedItsStateFile(d) => ~WritesStateFile(d)
          /\ ExitedGracefully(d)' => stateFile'.pid # d]_vars

\* what does hold: once the shutdown has begun no heartbeat starts, and a
\* daemon with no heartbeat in flight does not write after the deletion
StateFileStaysDeletedUnlessInFlight ==
    [][\A d \in Daemons :
          /\ daemons[d].pc \in {"stopping", "stopped", "deleted", "released"} =>
                ~(daemons[d].heartbeat = "idle" /\ daemons'[d].heartbeat # "idle")
          /\ (DeletedItsStateFile(d) /\ daemons[d].heartbeat = "idle") => ~WritesStateFile(d)]_vars

\* a daemon has exited gracefully and the state file names it
StateFileOutlivesDaemon ==
    \E d \in Daemons : ExitedGracefully(d) /\ stateFile = writeDaemonState(d, 1)


\* ─── Awaiters and the tracked sessions they wait for ────────────────────

TrackedByDaemon(d, pid) ==
    pid \in DOMAIN pidToTrackedSession[d] /\ pidToTrackedSession[d][pid].startedBy = "daemon"

\* C40: an awaiter exists for a PID only while a daemon-started tracked
\* session exists at that PID; when the tracked session is removed while its
\* spawn awaits the webhook, the awaiter goes with it and the spawn is resolved
AwaiterOnlyWhileTracked ==
    \A d \in Daemons : \A pid \in pidToAwaiter[d] : TrackedByDaemon(d, pid)

\* what does hold: an awaiter is removed only by the webhook or the timeout,
\* which resolve the spawn; until then the spawn is pending
AwaiterRemovedOnlyWhenResolved ==
    [][\A d \in Daemons : \A pid \in Children :
          /\ (pid \in pidToAwaiter[d] /\ pid \notin pidToAwaiter'[d]) =>
                children'[pid].pc = "done" /\ children'[pid].result \in {"success", "timeout"}
          /\ (pid \in pidToAwaiter[d] /\ pid \in pidToAwaiter'[d]) => children'[pid].pc = "awaiting"]_vars

\* a session was stopped, or pruned after its process ended, while its spawn
\* awaits: the awaiter is still installed and the spawn still pending
AwaitingTheRemoved ==
    \E d \in Daemons : \E pid \in pidToAwaiter[d] :
        /\ pid \notin DOMAIN pidToTrackedSession[d]
        /\ children[pid].pc = "awaiting"

====
